---- MODULE Spec2Model ----
(***************************************************************************)
(* A model of the ferro audio-to-visual pipeline:                          *)
(*   - TransitionEngine (lib/state/TransitionEngine.ts) with the GSAP      *)
(*     tweens it starts, and clampWorldTarget (lib/types/worldTarget.ts);  *)
(*   - the AI plan store and the plan-authoring requests that publish to   *)
(*     it (lib/stores/aiPlanStore.ts, lib/ai/AIPlannerFactory.ts);         *)
(*   - the two timeline recorders (FerrofluidVisualizer render loop and    *)
(*     AudioInputModule.startAnalysis).                                    *)
(*                                                                         *)
(* Units: times are centiseconds (1 s = 100), numeric visual parameters    *)
(* are hundredths (0.5 = 50), colour channels are 0..255.                  *)
(***************************************************************************)
EXTENDS Integers, Sequences, FiniteSets, TLC

VARIABLES
    \* ---- TransitionEngine -------------------------------------------
    currentState,   \* TransitionEngine.currentState (WorldState)
    activeTweens,   \* TransitionEngine.activeTweens: key -> tween id
    gsapTweens,     \* the tweens GSAP's global timeline is still running
    callCount,      \* number of transitionTo calls made so far
    lastTarget,     \* the WorldTarget given to the latest transitionTo
    prevMood,       \* currentState.mood read by the latest transitionTo
    prevState,      \* currentState as the latest transitionTo found it
    interrupted,    \* the latest transitionTo found tweens still running
    sinceCall,      \* centiseconds ticked since the latest transitionTo
    lastOp,         \* the engine operation that ran last
    killedState,    \* currentState as the latest killAll found it
    \* ---- a component holding WorldState objects the engine handed out --
    callerSnapshot, \* the object it holds: own top level, shared nested objects
    callerWrites,   \* number of writes it has made to that object
    callerLastOp,   \* what it did last ("engine" when the engine ran last)
    stateBeforeCaller, \* currentState before its last step
    \* ---- clampWorldTarget applied to a returned target -----------------
    clampRun,       \* [stage, input, once, twice]
    \* ---- the render loop resolving the active plan at a playback time --
    planLookup,     \* [plan, audio, currentTime, currentSection, params]
    \* ---- the mesh deformation of one render pass -----------------------
    deform,         \* [params, bassFr, treFr, blendedBass, blendedTreble,
                    \*  timeScale, spikeHeight, passes]
    \* ---- the authoring boundary taking in a response -------------------
    intake,         \* [op, response, timeline, store, outcome, lenientPasses,
                    \*  reflection]; reflection is what the call returned
    \* ---- AI plan store and plan-authoring requests ------------------
    aiPlanStore,    \* useAIPlanStore: [plan, isGenerating, error]
    planRequests,   \* the generatePlan calls made, in the order issued
    planLastOp,     \* the plan operation that ran last
    planLastReq,    \* the request the last plan operation belonged to
    planBefore,     \* aiPlanStore.plan before the last plan operation
    \* ---- timeline recorders ------------------------------------------
    mounted,        \* which audio front end the page mounts
    now,            \* real time elapsed, in centiseconds
    visualizer,     \* FerrofluidVisualizer: audio refs and collected frames
    audioInput,     \* AudioInputModule: its session and collected frames
    recLastOp,      \* the recorder operation that ran last
    recAppended,    \* whether the last tick appended a frame
    ticksInSession, \* ticks run in the current session, per recorder
    pausedAppends,  \* frames the visualizer appended since playback was paused
    recSent,        \* the timeline the last operation handed to generatePlan
    recFailure,     \* the capture failure the last operation met, if any
    sessionRequests \* plan requests issued for the session started last

engineVars == <<currentState, activeTweens, gsapTweens, callCount,
                lastTarget, prevMood, prevState, interrupted, sinceCall,
                lastOp, killedState>>

callerVars == <<callerSnapshot, callerWrites, callerLastOp, stateBeforeCaller>>

planVars == <<aiPlanStore, planRequests, planLastOp, planLastReq, planBefore>>

recVars == <<mounted, now, visualizer, audioInput, recLastOp, recAppended,
             ticksInSession, pausedAppends, recSent, recFailure,
             sessionRequests>>

vars ==
    <<engineVars, callerVars, clampRun, planLookup, deform, intake, planVars,
      recVars>>

----------------------------------------------------------------------------
(* Bounds of the model.                                                     *)

MaxCalls == 2       \* transitionTo calls explored per behaviour
MaxCallerWrites == 1 \* writes another component makes to a WorldState object
MaxRequests == 3    \* plan-authoring requests explored per behaviour
MaxClock == 150     \* real time explored per behaviour, in centiseconds
TrackDuration == 120 \* length of the audio file played, in centiseconds
TickCs   == 300     \* centiseconds that pass between two modelled ticks

----------------------------------------------------------------------------
(* Small helpers.                                                           *)

Min(a, b) == IF a < b THEN a ELSE b
Max(a, b) == IF a > b THEN a ELSE b

----------------------------------------------------------------------------
(* Colours.  A colour string is the sequence of its characters, so that    *)
(* "#FF0000", "#ff0000" and "ff0000" are three different strings that      *)
(* parse to the same RGB triple.  NoColor stands for an absent (undefined) *)
(* or empty colour string, which JavaScript treats as falsy.               *)

NoColor == << >>
RgbNull == << >>

HexVal(c) ==
    CASE c = "0" -> 0  [] c = "1" -> 1  [] c = "2" -> 2  [] c = "3" -> 3
      [] c = "4" -> 4  [] c = "5" -> 5  [] c = "6" -> 6  [] c = "7" -> 7
      [] c = "8" -> 8  [] c = "9" -> 9
      [] c = "a" -> 10 [] c = "b" -> 11 [] c = "c" -> 12
      [] c = "d" -> 13 [] c = "e" -> 14 [] c = "f" -> 15
      [] c = "A" -> 10 [] c = "B" -> 11 [] c = "C" -> 12
      [] c = "D" -> 13 [] c = "E" -> 14 [] c = "F" -> 15
      [] OTHER -> -1

LowerHexDigits ==
    <<"0", "1", "2", "3", "4", "5", "6", "7",
      "8", "9", "a", "b", "c", "d", "e", "f">>

\* /^#?([a-f\d]{2})([a-f\d]{2})([a-f\d]{2})$/i, then parseInt(.., 16)
hexToRgb(hex) ==
    LET body == IF Len(hex) > 0 /\ hex[1] = "#" THEN Tail(hex) ELSE hex
    IN  IF Len(body) = 6 /\ \A i \in 1..6 : HexVal(body[i]) >= 0
        THEN << 16 * HexVal(body[1]) + HexVal(body[2]),
                16 * HexVal(body[3]) + HexVal(body[4]),
                16 * HexVal(body[5]) + HexVal(body[6]) >>
        ELSE RgbNull

\* x.toString(16).padStart(2, "0") for 0 <= x <= 255
ByteToHex(x) == << LowerHexDigits[(x \div 16) + 1], LowerHexDigits[(x % 16) + 1] >>

rgbToHex(r, g, b) == <<"#">> \o ByteToHex(r) \o ByteToHex(g) \o ByteToHex(b)

----------------------------------------------------------------------------
(* WorldTarget and its clamp.                                              *)

Moods == {"calm", "flow", "pulse", "wild"}

FerroNumericParams ==
    <<"saturation", "roughness", "metalness", "envIntensity",
      "deformStrength", "deformScale", "deformSpeed", "swayAmount",
      "swaySpeed", "pulseAmount", "gravityStrength", "attractStrength">>

BgNumericParams ==
    <<"bgNoiseAmount", "bgFogDensity", "bgVignette", "bgMotion",
      "bloomIntensity", "grainAmount">>

SeqRange(s) == { s[i] : i \in 1..Len(s) }

\* mutant: a value above the range is halved instead of cut
Clamp_Halving(lo, hi, x) == IF x > hi THEN x \div 2 ELSE Max(lo, x)

\* Math.max(lo, Math.min(hi, x))
Clamp(lo, hi, x) == Max(lo, Min(hi, x))

\* mutant: bloom and grain get the same caps in every render mode
clampWorldTarget_SameCaps(target) ==
    [target EXCEPT
        !.transitionSeconds = Clamp(500, 2000, target.transitionSeconds),
        !.ferro = [target.ferro EXCEPT
            !.saturation      = Clamp(0, 70, target.ferro.saturation),
            !.roughness       = Clamp(0, 100, target.ferro.roughness),
            !.metalness       = Clamp(0, 100, target.ferro.metalness),
            !.envIntensity    = Clamp(0, 200, target.ferro.envIntensity),
            !.deformStrength  = Clamp(0, 100, target.ferro.deformStrength),
            !.deformScale     = Clamp(50, 300, target.ferro.deformScale),
            !.deformSpeed     = Clamp(0, 200, target.ferro.deformSpeed),
            !.swayAmount      = Clamp(0, 100, target.ferro.swayAmount),
            !.swaySpeed       = Clamp(0, 150, target.ferro.swaySpeed),
            !.pulseAmount     = Clamp(0, 100, target.ferro.pulseAmount),
            !.gravityStrength = Clamp(0, 100, target.ferro.gravityStrength),
            !.attractStrength = Clamp(0, 100, target.ferro.attractStrength)],
        !.background = [target.background EXCEPT
            !.bgNoiseAmount = Clamp(0, 25, target.background.bgNoiseAmount),
            !.bgFogDensity  = Clamp(0, 80, target.background.bgFogDensity),
            !.bgVignette    = Clamp(0, 80, target.background.bgVignette),
            !.bgMotion      = Clamp(0, 100, target.background.bgMotion),
            !.bloomIntensity = Clamp(0, 120, target.background.bloomIntensity),
            !.grainAmount = Clamp(0, 35, target.background.grainAmount)]]

\* clampWorldTarget
clampWorldTarget(target) ==
    [target EXCEPT
        !.transitionSeconds = Clamp(500, 2000, target.transitionSeconds),
        !.ferro = [target.ferro EXCEPT
            !.saturation      = Clamp(0, 70, target.ferro.saturation),
            !.roughness       = Clamp(0, 100, target.ferro.roughness),
            !.metalness       = Clamp(0, 100, target.ferro.metalness),
            !.envIntensity    = Clamp(0, 200, target.ferro.envIntensity),
            !.deformStrength  = Clamp(0, 100, target.ferro.deformStrength),
            !.deformScale     = Clamp(50, 300, target.ferro.deformScale),
            !.deformSpeed     = Clamp(0, 200, target.ferro.deformSpeed),
            !.swayAmount      = Clamp(0, 100, target.ferro.swayAmount),
            !.swaySpeed       = Clamp(0, 150, target.ferro.swaySpeed),
            !.pulseAmount     = Clamp(0, 100, target.ferro.pulseAmount),
            !.gravityStrength = Clamp(0, 100, target.ferro.gravityStrength),
            !.attractStrength = Clamp(0, 100, target.ferro.attractStrength)],
        !.background = [target.background EXCEPT
            !.bgNoiseAmount = Clamp(0, 25, target.background.bgNoiseAmount),
            !.bgFogDensity  = Clamp(0, 80, target.background.bgFogDensity),
            !.bgVignette    = Clamp(0, 80, target.background.bgVignette),
            !.bgMotion      = Clamp(0, 100, target.background.bgMotion),
            !.bloomIntensity =
                IF target.renderMode = "meshOnly"
                THEN Clamp(0, 50, target.background.bloomIntensity)
                ELSE Clamp(0, 120, target.background.bloomIntensity),
            !.grainAmount =
                IF target.renderMode = "meshOnly"
                THEN Clamp(0, 15, target.background.grainAmount)
                ELSE Clamp(0, 35, target.background.grainAmount)]]

\* the range the WorldTarget type declares for each numeric field
DeclaredRange ==
    [ saturation |-> <<0, 70>>, roughness |-> <<0, 100>>,
      metalness |-> <<0, 100>>, envIntensity |-> <<0, 200>>,
      deformStrength |-> <<0, 100>>, deformScale |-> <<50, 300>>,
      deformSpeed |-> <<0, 200>>, swayAmount |-> <<0, 100>>,
      swaySpeed |-> <<0, 150>>, pulseAmount |-> <<0, 100>>,
      gravityStrength |-> <<0, 100>>, attractStrength |-> <<0, 100>>,
      bgNoiseAmount |-> <<0, 25>>, bgFogDensity |-> <<0, 80>>,
      bgVignette |-> <<0, 80>>, bgMotion |-> <<0, 100>>,
      bloomIntensity |-> <<0, 120>>, grainAmount |-> <<0, 35>> ]

----------------------------------------------------------------------------
(* The states and targets explored.                                        *)

Str_3366ff == <<"#", "3", "3", "6", "6", "f", "f">>
Str_1a0033 == <<"#", "1", "a", "0", "0", "3", "3">>
Str_003366 == <<"#", "0", "0", "3", "3", "6", "6">>
Str_ff3366 == <<"#", "f", "f", "3", "3", "6", "6">>
Str_ffaa00 == <<"#", "f", "f", "a", "a", "0", "0">>
Str_330033 == <<"#", "3", "3", "0", "0", "3", "3">>
Str_660066 == <<"#", "6", "6", "0", "0", "6", "6">>
Str_FF0000 == <<"#", "F", "F", "0", "0", "0", "0">>
Str_660066_nohash == <<"6", "6", "0", "0", "6", "6">>
Str_teal   == <<"t", "e", "a", "l">>

\* the initial snapshot of exampleTransitionEngineUsage
InitialState ==
    [ renderMode |-> "full",
      mood       |-> "calm",
      ferro |-> [ baseColor |-> Str_3366ff, accentColor |-> NoColor,
                  saturation |-> 50, roughness |-> 30, metalness |-> 80,
                  envIntensity |-> 100, deformStrength |-> 30,
                  deformScale |-> 150, deformSpeed |-> 100,
                  swayAmount |-> 20, swaySpeed |-> 50, pulseAmount |-> 10,
                  gravityStrength |-> 30, attractStrength |-> 20 ],
      background |-> [ bgStyle |-> "SoftGradient",
                  bgGradientA |-> Str_1a0033, bgGradientB |-> Str_003366,
                  bgNoiseAmount |-> 10, bgFogDensity |-> 30,
                  bgVignette |-> 40, bgMotion |-> 20,
                  bloomIntensity |-> 50, grainAmount |-> 10 ] ]

\* Raw (unclamped) targets as the target-authoring boundary may return them,
\* one look per mood.  "pulse" is the target of exampleTransitionEngineUsage;
\* the others repeat colours of the initial state, leave accentColor out,
\* write colours in upper case or without "#", give one colour that is not
\* hex, and give numbers outside the declared ranges.
RawLook(mood) ==
    CASE mood = "pulse" ->
        [ renderMode |-> "full",
          ferro |-> [ baseColor |-> Str_ff3366, accentColor |-> Str_ffaa00,
                  saturation |-> 70, roughness |-> 20, metalness |-> 90,
                  envIntensity |-> 150, deformStrength |-> 60,
                  deformScale |-> 200, deformSpeed |-> 150,
                  swayAmount |-> 50, swaySpeed |-> 100, pulseAmount |-> 40,
                  gravityStrength |-> 20, attractStrength |-> 30 ],
          background |-> [ bgStyle |-> "GlowField",
                  bgGradientA |-> Str_330033, bgGradientB |-> Str_660066,
                  bgNoiseAmount |-> 15, bgFogDensity |-> 50,
                  bgVignette |-> 60, bgMotion |-> 40,
                  bloomIntensity |-> 80, grainAmount |-> 20 ] ]
      [] mood = "calm" ->
        [ renderMode |-> "meshOnly",
          ferro |-> [ baseColor |-> Str_3366ff, accentColor |-> NoColor,
                  saturation |-> 30, roughness |-> 50, metalness |-> 60,
                  envIntensity |-> 80, deformStrength |-> 10,
                  deformScale |-> 40, deformSpeed |-> 30,
                  swayAmount |-> 10, swaySpeed |-> 20, pulseAmount |-> 5,
                  gravityStrength |-> 40, attractStrength |-> 10 ],
          background |-> [ bgStyle |-> "SoftGradient",
                  bgGradientA |-> Str_1a0033, bgGradientB |-> Str_003366,
                  bgNoiseAmount |-> 5, bgFogDensity |-> 20,
                  bgVignette |-> 30, bgMotion |-> 10,
                  bloomIntensity |-> 80, grainAmount |-> 20 ] ]
      [] mood = "wild" ->
        [ renderMode |-> "full",
          ferro |-> [ baseColor |-> Str_FF0000, accentColor |-> Str_ffaa00,
                  saturation |-> 90, roughness |-> 10, metalness |-> 100,
                  envIntensity |-> 250, deformStrength |-> 120,
                  deformScale |-> 350, deformSpeed |-> 200,
                  swayAmount |-> 100, swaySpeed |-> 180, pulseAmount |-> 100,
                  gravityStrength |-> -10, attractStrength |-> 90 ],
          background |-> [ bgStyle |-> "DeepSpace",
                  bgGradientA |-> Str_330033,
                  bgGradientB |-> Str_660066_nohash,
                  bgNoiseAmount |-> 40, bgFogDensity |-> 100,
                  bgVignette |-> 90, bgMotion |-> 100,
                  bloomIntensity |-> 150, grainAmount |-> 50 ] ]
      [] OTHER ->
        [ renderMode |-> "meshOnly",
          ferro |-> [ baseColor |-> Str_ff3366, accentColor |-> NoColor,
                  saturation |-> 40, roughness |-> 40, metalness |-> 70,
                  envIntensity |-> 120, deformStrength |-> 40,
                  deformScale |-> 100, deformSpeed |-> 80,
                  swayAmount |-> 30, swaySpeed |-> 70, pulseAmount |-> 20,
                  gravityStrength |-> 50, attractStrength |-> 40 ],
          background |-> [ bgStyle |-> "Mist",
                  bgGradientA |-> Str_1a0033, bgGradientB |-> Str_teal,
                  bgNoiseAmount |-> 20, bgFogDensity |-> 60,
                  bgVignette |-> 50, bgMotion |-> 30,
                  bloomIntensity |-> 40, grainAmount |-> 10 ] ]

\* requested transitionSeconds, as returned (3 s lies below the 5..20 range)
RawSeconds == {300, 1500}

RawTarget(mood, secs) ==
    [ renderMode        |-> RawLook(mood).renderMode,
      mood              |-> mood,
      transitionSeconds |-> secs,
      ferro             |-> RawLook(mood).ferro,
      background        |-> RawLook(mood).background ]

RawTargets == { RawTarget(m, s) : m \in Moods, s \in RawSeconds }

----------------------------------------------------------------------------
(* GSAP tweens.  A tween animates the properties of one object from the    *)
(* values they have when it first renders to the values given to           *)
(* gsap.to(), over `duration`, and is taken off GSAP's timeline when it    *)
(* completes or is killed.  `to` and `from` hold one number for a numeric  *)
(* field and <<r, g, b>> for a colour.                                     *)

NoTweens == [k \in {} |-> << >>]

Pow2(x) == (x * x) \div 1000
Pow3(x) == (Pow2(x) * x) \div 1000

\* eased progress in thousandths for progress p in thousandths
EaseValue(ease, p) ==
    CASE ease = "power1.out"   -> 1000 - Pow2(1000 - p)
      [] ease = "power2.out"   -> 1000 - Pow3(1000 - p)
      [] ease = "power2.inOut" ->
            IF p < 500 THEN Pow3(2 * p) \div 2
                       ELSE 1000 - (Pow3(2 * (1000 - p)) \div 2)
      [] OTHER -> p

TweenProgress(tw) ==
    IF tw.elapsed >= tw.duration THEN 1000
    ELSE (tw.elapsed * 1000) \div tw.duration

\* the values the tween gives its properties, in thousandths
TweenValue(tw) ==
    [ i \in 1..Len(tw.to) |->
        tw.from[i] * 1000
          + (tw.to[i] - tw.from[i]) * EaseValue(tw.ease, TweenProgress(tw)) ]

\* Math.round of a value given in thousandths
RoundMilli(v) == (2 * v + 1000) \div 2000

NumericTween(gen, key, to, duration, ease) ==
    [ id |-> <<gen, key>>, gen |-> gen, key |-> key, kind |-> "numeric",
      from |-> <<0>>, to |-> <<to>>, started |-> FALSE,
      duration |-> duration, ease |-> ease, elapsed |-> 0 ]

----------------------------------------------------------------------------
(* TransitionEngine.                                                       *)

\* mutant: transitionTo forgets to kill the tweens of the map
SurvivingTweens_NoKill(gsap, active) == gsap

\* tween.kill() for every tween of the map
SurvivingTweens(gsap, active) ==
    { tw \in gsap : ~ \E k \in DOMAIN active : active[k] = tw.id }

\* mutant: the slow return looks at the target mood only
ActualDuration_TargetOnly(previousMood, targetMood, duration) ==
    IF targetMood = "calm"
    THEN Max(1200, Min(2000, (duration * 3) \div 2))
    ELSE duration

\* mutant: the slow return has no 20 s ceiling
ActualDuration_NoCeiling(previousMood, targetMood, duration) ==
    IF previousMood = "wild" /\ targetMood = "calm"
    THEN Max(1200, (duration * 3) \div 2)
    ELSE duration

\* the duration rule of transitionTo
ActualDuration(previousMood, targetMood, duration) ==
    IF previousMood = "wild" /\ targetMood = "calm"
    THEN Max(1200, Min(2000, (duration * 3) \div 2))
    ELSE duration

\* the easing rule of transitionTo
MoodEase(previousMood, targetMood) ==
    IF previousMood = "wild" /\ targetMood = "calm" THEN "power1.out"
    ELSE IF targetMood = "wild" THEN "power2.out"
    ELSE "power2.inOut"

\* mutant: the background gets the duration of the mesh
BgDuration_NoLag(actualDuration) == actualDuration

\* const bgDuration = actualDuration * 1.2
BgDuration(actualDuration) == (actualDuration * 6) \div 5

\* mutant: fog and bloom lose their 8 s floor
SlowDuration_NoFloor(duration) == duration

\* fogDuration / bloomDuration = Math.max(8, duration)
SlowDuration(duration) == Max(800, duration)

\* paramDuration of a background numeric parameter
ParamDuration(param, duration) ==
    IF param = "bgFogDensity" \/ param = "bloomIntensity"
    THEN SlowDuration(duration)
    ELSE duration

\* mutant: a tween is started even when the colour does not change
transitionColor_NoSkip(gen, key, fromColor, toColor, duration, ease) ==
    IF hexToRgb(fromColor) = RgbNull \/ hexToRgb(toColor) = RgbNull
    THEN {}
    ELSE { [ id |-> <<gen, key>>, gen |-> gen, key |-> key, kind |-> "color",
             from |-> hexToRgb(fromColor), to |-> hexToRgb(toColor),
             started |-> TRUE,
             duration |-> duration, ease |-> ease, elapsed |-> 0 ] }

\* mutant: every colour interpolation starts from black
transitionColor_FromBlack(gen, key, fromColor, toColor, duration, ease) ==
    IF fromColor = toColor THEN {}
    ELSE IF hexToRgb(fromColor) = RgbNull \/ hexToRgb(toColor) = RgbNull
    THEN {}
    ELSE { [ id |-> <<gen, key>>, gen |-> gen, key |-> key, kind |-> "color",
             from |-> <<0, 0, 0>>, to |-> hexToRgb(toColor),
             started |-> TRUE,
             duration |-> duration, ease |-> ease, elapsed |-> 0 ] }

\* transitionColor: the tweens it starts (none or one)
transitionColor(gen, key, fromColor, toColor, duration, ease) ==
    IF fromColor = toColor THEN {}
    ELSE IF hexToRgb(fromColor) = RgbNull \/ hexToRgb(toColor) = RgbNull
    THEN {}
    ELSE { [ id |-> <<gen, key>>, gen |-> gen, key |-> key, kind |-> "color",
             from |-> hexToRgb(fromColor), to |-> hexToRgb(toColor),
             started |-> TRUE,
             duration |-> duration, ease |-> ease, elapsed |-> 0 ] }

\* transitionFerroParams: the tweens it starts
FerroTweens(gen, currentFerro, targetFerro, duration, ease) ==
    transitionColor(gen, <<"ferro", "baseColor">>, currentFerro.baseColor,
                    targetFerro.baseColor, duration, ease)
    \cup
    ( IF targetFerro.accentColor # NoColor
      THEN transitionColor(gen, <<"ferro", "accentColor">>,
                IF currentFerro.accentColor # NoColor
                THEN currentFerro.accentColor ELSE currentFerro.baseColor,
                targetFerro.accentColor, duration, ease)
      ELSE {} )
    \cup
    { NumericTween(gen, <<"ferro", param>>, targetFerro[param], duration, ease)
        : param \in SeqRange(FerroNumericParams) }

\* transitionBackgroundParams: the tweens it starts
BackgroundTweens(gen, currentBg, targetBg, duration, ease) ==
    transitionColor(gen, <<"background", "bgGradientA">>,
                    currentBg.bgGradientA, targetBg.bgGradientA, duration, ease)
    \cup
    transitionColor(gen, <<"background", "bgGradientB">>,
                    currentBg.bgGradientB, targetBg.bgGradientB, duration, ease)
    \cup
    { NumericTween(gen, <<"background", param>>, targetBg[param],
                   ParamDuration(param, duration), ease)
        : param \in SeqRange(BgNumericParams) }

\* every tween one transitionTo(target) starts from state `state`
StartedTweens(gen, state, target) ==
    LET actualDuration ==
            ActualDuration(state.mood, target.mood, target.transitionSeconds)
        ease == MoodEase(state.mood, target.mood)
    IN  FerroTweens(gen, state.ferro, target.ferro, actualDuration, ease)
        \cup
        BackgroundTweens(gen, state.background, target.background,
                         BgDuration(actualDuration), ease)

\* this.activeTweens.set(key, tween) for each tween started
TweenMap(tweens) ==
    [ k \in { tw.key : tw \in tweens } |->
        (CHOOSE tw \in tweens : tw.key = k).id ]

\* mutant: the background style is left to the interpolations
DiscreteWrite_NoStyle(state, target) ==
    [ state EXCEPT !.renderMode = target.renderMode, !.mood = target.mood ]

\* the discrete fields transitionTo writes at once
DiscreteWrite(state, target) ==
    [ state EXCEPT
        !.renderMode = target.renderMode,
        !.mood = target.mood,
        !.background = [ state.background EXCEPT
                            !.bgStyle = target.background.bgStyle ] ]

TransitionTo(target) ==
    /\ callCount < MaxCalls
    /\ LET new == StartedTweens(callCount + 1, currentState, target)
       IN  /\ gsapTweens' = SurvivingTweens(gsapTweens, activeTweens) \cup new
           /\ activeTweens' = TweenMap(new)
    /\ currentState' = DiscreteWrite(currentState, target)
    /\ callCount' = callCount + 1
    /\ lastTarget' = target
    /\ prevMood' = currentState.mood
    /\ prevState' = currentState
    /\ interrupted' = (gsapTweens # {})
    /\ sinceCall' = 0
    /\ lastOp' = "transitionTo"
    /\ UNCHANGED killedState

\* mutant: the caller hands the target over as it was returned
ClampAndTransition_Raw ==
    \E raw \in RawTargets : TransitionTo(raw)

\* the caller clamps what the authoring boundary returned, then hands it over
ClampAndTransition ==
    \E raw \in RawTargets : TransitionTo(clampWorldTarget(raw))

\* mutant: killAll clears the map but kills no tween
KillAll_ClearOnly ==
    /\ activeTweens # NoTweens
    /\ gsapTweens' = gsapTweens
    /\ activeTweens' = NoTweens
    /\ lastOp' = "killAll"
    /\ killedState' = currentState
    /\ UNCHANGED <<currentState, callCount, lastTarget, prevMood, prevState,
                   interrupted, sinceCall>>

\* killAll (dispose calls it too)
KillAll ==
    /\ activeTweens # NoTweens
    /\ gsapTweens' = SurvivingTweens(gsapTweens, activeTweens)
    /\ activeTweens' = NoTweens
    /\ lastOp' = "killAll"
    /\ killedState' = currentState
    /\ UNCHANGED <<currentState, callCount, lastTarget, prevMood, prevState,
                   interrupted, sinceCall>>

\* a tween after TickCs more centiseconds; a numeric tween reads its start
\* values from the animated object when it first renders
AdvanceTween(tw, state) ==
    [ tw EXCEPT
        !.from = IF tw.started THEN tw.from
                 ELSE << state[tw.key[1]][tw.key[2]] >>,
        !.started = TRUE,
        !.elapsed = Min(tw.elapsed + TickCs, tw.duration) ]

\* what a rendering tween writes to its field: the number, or for a colour
\* the hex string of the rounded channels (onUpdate of transitionColor)
RenderedValue(tw) ==
    IF tw.kind = "color"
    THEN rgbToHex(RoundMilli(TweenValue(tw)[1]), RoundMilli(TweenValue(tw)[2]),
                  RoundMilli(TweenValue(tw)[3]))
    ELSE TweenValue(tw)[1] \div 1000

\* a field after the tick: tweens render in the order they were created, so
\* the youngest tween on a field has the last word
FieldAfterTick(group, field) ==
    LET ws == { tw \in gsapTweens : tw.key = <<group, field>> }
    IN  IF ws = {} THEN currentState[group][field]
        ELSE RenderedValue(AdvanceTween(
                CHOOSE tw \in ws : \A o \in ws : o.gen <= tw.gen,
                currentState))

\* one step of GSAP's ticker: every running tween renders (and notifies),
\* completed tweens leave the timeline
Tick ==
    /\ gsapTweens # {}
    /\ currentState' =
            [ currentState EXCEPT
                !.ferro = [ f \in DOMAIN currentState.ferro |->
                              FieldAfterTick("ferro", f) ],
                !.background = [ f \in DOMAIN currentState.background |->
                              FieldAfterTick("background", f) ] ]
    /\ gsapTweens' =
            { tw \in { AdvanceTween(t, currentState) : t \in gsapTweens } :
                tw.elapsed < tw.duration }
    /\ sinceCall' = sinceCall + TickCs
    /\ lastOp' = "tick"
    /\ UNCHANGED <<activeTweens, callCount, lastTarget, prevMood, prevState,
                   interrupted, killedState>>

EngineInit ==
    /\ currentState = InitialState
    /\ activeTweens = NoTweens
    /\ gsapTweens = {}
    /\ callCount = 0
    /\ lastTarget = clampWorldTarget(RawTarget("calm", 1000))
    /\ prevMood = InitialState.mood
    /\ prevState = InitialState
    /\ interrupted = FALSE
    /\ sinceCall = 0
    /\ lastOp = "init"
    /\ killedState = InitialState

EngineNext ==
    \/ ClampAndTransition
    \/ KillAll
    \/ Tick

----------------------------------------------------------------------------
(* clampWorldTarget on its own: a returned target is clamped, and the       *)
(* result clamped again.                                                    *)

\* raw values tried for the fields whose caps depend on the render mode, for
\* one field with a lower bound above zero, and for transitionSeconds
RawBlooms == {-10, 40, 80, 150}
RawGrains == {10, 20, 50}
RawScales == {40, 350}
RawDurations == {300, 1000, 2500}

ClampInputs ==
    { [ RawTarget(m, secs) EXCEPT
          !.renderMode = rm,
          !.ferro.deformScale = d,
          !.background.bloomIntensity = b,
          !.background.grainAmount = g ] :
        m \in {"pulse", "wild"}, secs \in RawDurations,
        rm \in {"meshOnly", "full"}, d \in RawScales,
        b \in RawBlooms, g \in RawGrains }

\* a target is returned by the authoring boundary
ReceiveTarget(x) ==
    /\ clampRun.stage = "idle"
    /\ clampRun' = [ stage |-> "raw", input |-> x, once |-> x, twice |-> x ]

\* const clampedTarget = clampWorldTarget(target)
ClampOnce ==
    /\ clampRun.stage = "raw"
    /\ clampRun' = [ clampRun EXCEPT !.stage = "once",
                                     !.once = clampWorldTarget(clampRun.input) ]

\* clampWorldTarget(clampedTarget)
ClampAgain ==
    /\ clampRun.stage = "once"
    /\ clampRun' = [ clampRun EXCEPT !.stage = "twice",
                                     !.twice = clampWorldTarget(clampRun.once) ]

ClampInit ==
    clampRun = [ stage |-> "idle", input |-> RawTarget("calm", 1000),
                 once |-> RawTarget("calm", 1000),
                 twice |-> RawTarget("calm", 1000) ]

ClampNext ==
    \/ \E x \in ClampInputs : ReceiveTarget(x)
    \/ ClampOnce
    \/ ClampAgain

----------------------------------------------------------------------------
(* The render loop's lookup of the plan section for the playback time.     *)
(* Playback times and section bounds are in milliseconds here, so that     *)
(* 9.999 s and 20.001 s can be told from 10 s and 20 s.                    *)

Section(name, startTime, endTime, energy, tension, spike, noise, style) ==
    [ name |-> name, startTime |-> startTime, endTime |-> endTime,
      energy |-> energy, tension |-> tension, spikeAmount |-> spike,
      noiseAmount |-> noise, motionStyle |-> style ]

SectionA(startTime, endTime) ==
    Section("A", startTime, endTime, 30, 20, 10, 40, "slow_waves")

SectionB(startTime, endTime) ==
    Section("B", startTime, endTime, 80, 70, 60, 90, "spikes")

AnimationPlan(sections) ==
    [ present |-> TRUE,
      global |-> [ baseEnergy |-> 50, baseTension |-> 45 ],
      sections |-> sections ]

\* aiPlanRef.current is null
NullPlan ==
    [ present |-> FALSE,
      global |-> [ baseEnergy |-> 0, baseTension |-> 0 ],
      sections |-> << >> ]

\* the plans looked up: adjoining sections, an authored gap, a late first
\* section, overlapping sections, sections out of order, one section, none
AnimationPlans ==
    { AnimationPlan(<< SectionA(0, 10000), SectionB(10000, 20000) >>),
      AnimationPlan(<< SectionA(0, 5000), SectionB(15000, 30000) >>),
      AnimationPlan(<< SectionA(5000, 10000), SectionB(10000, 20000) >>),
      AnimationPlan(<< SectionA(0, 12000), SectionB(10000, 20000) >>),
      AnimationPlan(<< SectionB(10000, 20000), SectionA(0, 10000) >>),
      AnimationPlan(<< SectionA(0, 10000) >>),
      AnimationPlan(<< >>) }

PlaybackTimes ==
    { 0, 2500, 4999, 5000, 9999, 10000, 10001, 12000, 14999, 15000,
      19999, 20000, 20001, 30000, 30001 }

\* currentAIPlanParams is undefined
NoParams ==
    [ energy |-> -1, tension |-> -1, spikeAmount |-> -1, noiseAmount |-> -1,
      motionStyle |-> "undefined" ]

\* mutant: every section includes its end time
SectionMatches_EndInclusive(sections, index, currentTime) ==
    /\ currentTime >= sections[index].startTime
    /\ currentTime <= sections[index].endTime

\* the predicate given to sections.find
SectionMatches(sections, index, currentTime) ==
    IF index = Len(sections)
    THEN /\ currentTime >= sections[index].startTime
         /\ currentTime <= sections[index].endTime
    ELSE /\ currentTime >= sections[index].startTime
         /\ currentTime < sections[index].endTime

\* mutant: with no match, the latest section that has started is taken
findSection_Nearest(sections, currentTime) ==
    LET hits == { i \in 1..Len(sections) :
                    SectionMatches(sections, i, currentTime) }
        begun == { i \in 1..Len(sections) :
                    sections[i].startTime <= currentTime }
    IN  IF hits # {} THEN CHOOSE i \in hits : \A j \in hits : i <= j
        ELSE IF begun # {} THEN CHOOSE i \in begun : \A j \in begun : j <= i
        ELSE 0

\* sections.find(...): the index of the first section that matches, 0 if none
findSection(sections, currentTime) ==
    LET hits == { i \in 1..Len(sections) :
                    SectionMatches(sections, i, currentTime) }
    IN  IF hits = {} THEN 0
        ELSE CHOOSE i \in hits : \A j \in hits : i <= j

SectionParams(section) ==
    [ energy |-> section.energy, tension |-> section.tension,
      spikeAmount |-> section.spikeAmount, noiseAmount |-> section.noiseAmount,
      motionStyle |-> section.motionStyle ]

\* the plan's global block with spike, noise and motion style defaulted
GlobalParams(plan) ==
    [ energy |-> plan.global.baseEnergy, tension |-> plan.global.baseTension,
      spikeAmount |-> 0, noiseAmount |-> 100, motionStyle |-> "default" ]

\* a render pass with an analyser: the section for the playback time, else
\* the global block; nothing without a plan
RenderWithAudio(plan, currentTime) ==
    LET currentSection ==
            IF plan.present THEN findSection(plan.sections, currentTime) ELSE 0
    IN  planLookup' =
            [ plan |-> plan, audio |-> TRUE, currentTime |-> currentTime,
              currentSection |-> currentSection,
              params |-> IF ~ plan.present THEN NoParams
                         ELSE IF currentSection # 0
                         THEN SectionParams(plan.sections[currentSection])
                         ELSE GlobalParams(plan) ]

\* a render pass without an analyser: the global block of the plan, if any
RenderWithoutAudio(plan) ==
    planLookup' =
        [ plan |-> plan, audio |-> FALSE, currentTime |-> 0,
          currentSection |-> 0,
          params |-> IF plan.present THEN GlobalParams(plan) ELSE NoParams ]

LookupInit ==
    planLookup = [ plan |-> NullPlan, audio |-> FALSE, currentTime |-> 0,
                   currentSection |-> 0, params |-> NoParams ]

LookupNext ==
    \/ \E plan \in AnimationPlans \cup {NullPlan}, t \in PlaybackTimes :
          RenderWithAudio(plan, t)
    \/ \E plan \in AnimationPlans \cup {NullPlan} : RenderWithoutAudio(plan)

----------------------------------------------------------------------------
(* makeRoughBall: how one render pass turns the audio levels and the plan  *)
(* parameters into the blend, the time scale and the fixed spike.  Audio   *)
(* levels and plan parameters are in hundredths, weights in tenths, the    *)
(* blended levels in thousandths, time scales in hundredths and spike      *)
(* heights in ten-thousandths.  A style tag is the sequence of its         *)
(* characters, so that tags differing in case are different strings; a     *)
(* character outside ASCII is written as its code point.                   *)

Tag_slow_waves ==
    << "s", "l", "o", "w", "_", "w", "a", "v", "e", "s" >>
Tag_Slow_Waves ==
    << "S", "l", "o", "w", "_", "W", "a", "v", "e", "s" >>
Tag_SLOW_WAVES ==
    << "S", "L", "O", "W", "_", "W", "A", "V", "E", "S" >>
Tag_intense ==
    << "i", "n", "t", "e", "n", "s", "e" >>
Tag_Intense ==
    << "I", "n", "t", "e", "n", "s", "e" >>
Tag_INTENSE ==
    << "I", "N", "T", "E", "N", "S", "E" >>
Tag_calm_breathing ==
    << "c", "a", "l", "m", "_", "b", "r", "e", "a", "t", "h", "i", "n", "g" >>
Tag_fast_spikes ==
    << "f", "a", "s", "t", "_", "s", "p", "i", "k", "e", "s" >>
Tag_default ==
    << "d", "e", "f", "a", "u", "l", "t" >>
Tag_hageshii ==
    << "U+6FC0", "U+3057", "U+3044" >>

StyleTags ==
    { Tag_slow_waves, Tag_Slow_Waves, Tag_SLOW_WAVES,
      Tag_intense, Tag_Intense, Tag_INTENSE,
      Tag_calm_breathing, Tag_fast_spikes, Tag_default,
      Tag_hageshii }

\* String.prototype.includes
Includes(str, sub) ==
    \E i \in 1..(Len(str) - Len(sub) + 1) :
        SubSeq(str, i, i + Len(sub) - 1) = sub

\* aiPlanParams is undefined
UndefinedParams ==
    [ given |-> FALSE, energy |-> 0, tension |-> 0, spikeAmount |-> 0,
      noiseAmount |-> 0, motionStyle |-> << >> ]

\* the parameter objects passed in
GivenParams ==
    { [ given |-> TRUE, energy |-> e.energy, tension |-> e.tension,
        spikeAmount |-> spike, noiseAmount |-> 100, motionStyle |-> tag ] :
      e \in { [ energy |-> 30, tension |-> 20 ],
              [ energy |-> 100, tension |-> 0 ] },
      spike \in { 0, 10, 50, 100 },
      tag \in StyleTags }

\* modulate(..., 0, 8) and modulate(..., 0, 4)
BassLevels == { 0, 50, 800 }
TrebleLevels == { 0, 400 }

\* aiPlanParams?.energy ?? 0.5 and its siblings
aiEnergy(params) == IF params.given THEN params.energy ELSE 50
aiTension(params) == IF params.given THEN params.tension ELSE 50
aiSpikeAmount(params) == IF params.given THEN params.spikeAmount ELSE 0
motionStyle(params) ==
    IF params.given THEN params.motionStyle ELSE Tag_default

aiWeight(params) == IF params.given THEN 9 ELSE 0

\* mutant: the audio keeps its full weight beside a plan
audioWeight_Full(params) == 10

audioWeight(params) == IF params.given THEN 1 ELSE 10

blendedBass(bassFr, params) ==
    bassFr * audioWeight(params) + aiEnergy(params) * aiWeight(params)

blendedTreble(treFr, params) ==
    treFr * audioWeight(params) + aiTension(params) * aiWeight(params)

\* the time scale chosen from the style tag
timeScale(style) ==
    IF \/ Includes(style, << "s", "l", "o", "w" >>)
       \/ Includes(style, << "b", "r", "e", "a", "t", "h", "i", "n", "g" >>)
       \/ Includes(style, << "c", "a", "l", "m" >>)
    THEN 15
    ELSE IF \/ Includes(style, << "f", "a", "s", "t" >>)
            \/ Includes(style, << "s", "p", "i", "k", "e", "s" >>)
            \/ Includes(style, << "i", "n", "t", "e", "n", "s", "e" >>)
            \/ Includes(style, << "U+6FC0" >>)
    THEN 60
    ELSE 30

\* the height of the single spike along SPIKE_DIR
spikeHeight(params) ==
    IF aiSpikeAmount(params) > 0
    THEN 250 * aiSpikeAmount(params)
    ELSE 250 * 100

MakeRoughBall(bassFr, treFr, params) ==
    deform' = [ params |-> params, bassFr |-> bassFr, treFr |-> treFr,
                blendedBass |-> blendedBass(bassFr, params),
                blendedTreble |-> blendedTreble(treFr, params),
                timeScale |-> timeScale(motionStyle(params)),
                spikeHeight |-> spikeHeight(params),
                passes |-> 1 ]

DeformInit ==
    deform = [ params |-> UndefinedParams, bassFr |-> 0, treFr |-> 0,
               blendedBass |-> 0, blendedTreble |-> 0, timeScale |-> 30,
               spikeHeight |-> 250 * 100, passes |-> 0 ]

DeformNext ==
    \E bassFr \in BassLevels, treFr \in TrebleLevels,
       params \in GivenParams \cup { UndefinedParams } :
        MakeRoughBall(bassFr, treFr, params)

----------------------------------------------------------------------------
(* Another component and the WorldState objects it holds.  The constructor *)
(* and getCurrentState copy the top level only ({ ...state }): the object  *)
(* handed over or out has its own renderMode and mood, while its ferro and *)
(* background are the very objects the engine animates.                    *)

\* { ...state }: the fields of the copy that are the copy's own
ShallowCopy(state) ==
    [ renderMode |-> state.renderMode, mood |-> state.mood ]

\* the writes the component makes through the object it holds
CallerNestedWrites ==
    { [ key |-> <<"ferro", "saturation">>, value |-> 0 ] }

CallerStep(op) ==
    /\ callerLastOp' = op
    /\ stateBeforeCaller' = currentState

\* const snapshot = engine.getCurrentState()
GetCurrentState ==
    /\ callerWrites < MaxCallerWrites
    /\ callerSnapshot' = ShallowCopy(currentState)
    /\ callerLastOp' = "getCurrentState"
    /\ UNCHANGED <<engineVars, callerWrites, stateBeforeCaller>>

\* snapshot.mood = m: a write to the copy's own top level
CallerWritesTopLevel(m) ==
    /\ callerWrites < MaxCallerWrites
    /\ callerSnapshot' = [ callerSnapshot EXCEPT !.mood = m ]
    /\ callerWrites' = callerWrites + 1
    /\ CallerStep("write")
    /\ UNCHANGED engineVars

\* snapshot.ferro.saturation = v (or initialState.ferro...): a write to a
\* nested object, which is the engine's own
CallerWritesNested(w) ==
    /\ callerWrites < MaxCallerWrites
    /\ currentState' = [ currentState EXCEPT ![w.key[1]][w.key[2]] = w.value ]
    /\ callerWrites' = callerWrites + 1
    /\ CallerStep("write")
    /\ UNCHANGED <<callerSnapshot, activeTweens, gsapTweens, callCount,
                   lastTarget, prevMood, prevState, interrupted, sinceCall,
                   lastOp, killedState>>

CallerInit ==
    /\ callerSnapshot = ShallowCopy(InitialState)
    /\ callerWrites = 0
    /\ callerLastOp = "init"
    /\ stateBeforeCaller = InitialState

CallerNext ==
    \/ GetCurrentState
    \/ \E m \in {"wild"} : CallerWritesTopLevel(m)
    \/ \E w \in CallerNestedWrites : CallerWritesNested(w)

\* the engine runs while the other component holds its objects
EngineBesideCaller ==
    /\ EngineNext
    /\ callerLastOp' = "engine"
    /\ UNCHANGED <<callerSnapshot, callerWrites, stateBeforeCaller>>

----------------------------------------------------------------------------
(* The AI plan store and the requests that publish to it.                  *)

Null == "null"

\* the plan the authoring service returns in answer to request r
PlanOf(r) == [ request |-> r ]
NoPlan == [ request |-> 0 ]

\* who awaits generatePlan: the visualizer (generateAIPlanFromTimeline) or
\* the audio controls (generateAIPlan)
Callers == {"visualizer", "controls"}

\* how a request can fail
FailureKinds == {"network", "malformed", "schema"}

FailureMessage(kind) ==
    CASE kind = "network"   -> "Failed to fetch"
      [] kind = "malformed" -> "No plan in response"
      [] OTHER              -> "API request failed"

\* setIsGenerating(true); setError(null)
BeginGenerating(store) ==
    [ store EXCEPT !.isGenerating = TRUE, !.error = Null ]

\* setPlan(plan) (which also clears the error); setIsGenerating(false)
AcceptPlan(store, plan) ==
    [ store EXCEPT !.plan = plan, !.error = Null, !.isGenerating = FALSE ]

\* mutant: a failed request wipes the store
RejectPlan_Reset(store, message) ==
    [ plan |-> NoPlan, isGenerating |-> FALSE, error |-> message ]

\* the catch block: setError(errorMessage); setIsGenerating(false)
RejectPlan(store, message) ==
    [ store EXCEPT !.error = message, !.isGenerating = FALSE ]

\* mutant: a new request aborts the requests still in flight
WithNewRequest_AbortOlder(requests, caller) ==
    Append([ i \in 1..Len(requests) |->
                IF requests[i].phase = "inflight"
                THEN [ requests[i] EXCEPT !.phase = "cancelled" ]
                ELSE requests[i] ],
           [ caller |-> caller, phase |-> "inflight" ])

\* the fetch / chat completion of a new request is started
WithNewRequest(requests, caller) ==
    Append(requests, [ caller |-> caller, phase |-> "inflight" ])

\* generatePlan up to its await.  The manual button of the visualizer is
\* disabled while a plan is being generated; the requests issued when a
\* session stops or playback ends are not guarded.
IssuePlanRequest(caller, trigger) ==
    /\ Len(planRequests) < MaxRequests
    /\ trigger = "manual" => (caller = "visualizer" /\ ~ aiPlanStore.isGenerating)
    /\ planBefore' = aiPlanStore.plan
    /\ aiPlanStore' = BeginGenerating(aiPlanStore)
    /\ planRequests' = WithNewRequest(planRequests, caller)
    /\ planLastOp' = "issue"
    /\ planLastReq' = Len(planRequests) + 1

\* the response of request r arrives with a plan
PlanArrives(r) ==
    /\ planRequests[r].phase = "inflight"
    /\ planBefore' = aiPlanStore.plan
    /\ aiPlanStore' = AcceptPlan(aiPlanStore, PlanOf(r))
    /\ planRequests' = [ planRequests EXCEPT ![r].phase = "done" ]
    /\ planLastOp' = "accept"
    /\ planLastReq' = r

\* what the store's error reads once the failure has been handled: the
\* visualizer's own catch runs in the same turn and prefixes the message
ErrorShown(caller, message) ==
    IF caller = "visualizer"
    THEN "AI plan generation failed: " \o message
    ELSE message

\* request r fails: the catch block of generatePlan runs and rethrows, and
\* the caller's catch runs in the same turn of the event loop
PlanFails(r, kind) ==
    /\ planRequests[r].phase = "inflight"
    /\ planBefore' = aiPlanStore.plan
    /\ aiPlanStore' = RejectPlan(aiPlanStore,
                           ErrorShown(planRequests[r].caller, FailureMessage(kind)))
    /\ planRequests' = [ planRequests EXCEPT ![r].phase = "failed" ]
    /\ planLastOp' = "reject"
    /\ planLastReq' = r

PlanInit ==
    /\ aiPlanStore = [ plan |-> NoPlan, isGenerating |-> FALSE, error |-> Null ]
    /\ planRequests = << >>
    /\ planLastOp = "init"
    /\ planLastReq = 0
    /\ planBefore = NoPlan

PlanNext ==
    \/ \E c \in Callers, t \in {"stop", "manual"} : IssuePlanRequest(c, t)
    \/ \E r \in 1..Len(planRequests) : PlanArrives(r)
    \/ \E r \in 1..Len(planRequests), k \in FailureKinds : PlanFails(r, k)

----------------------------------------------------------------------------
(* The authoring boundary: what generatePlan does with the text the model  *)
(* returned, on the server route behind AIPlannerFactory and in the        *)
(* browser-side AIPlannerModule, and what generateReflection does with     *)
(* its own.  Times are in milliseconds, parameters in hundredths.          *)

\* the timelines sent with a request: trackInfo.duration (0 when it is not
\* set) and the times of the recorded frames
Timeline(duration, frames) == [ duration |-> duration, frames |-> frames ]

Timelines ==
    { Timeline(0, << >>), Timeline(0, << 500, 1800 >>),
      Timeline(1500, << 500, 1800 >>), Timeline(2000, << 500, 1800 >>),
      Timeline(3000, << >>) }

\* sections a response can carry: two in range, one in range that ends
\* before it starts, and three with a parameter outside [0, 1]
SectionBackwards ==
    Section("C", 2000, 1000, 40, 40, 40, 40, "default")
SectionHot ==
    Section("D", 1000, 2000, 150, 50, 50, 50, "intense")
SectionNegativeSpike ==
    Section("E", 1000, 2000, 50, 50, -10, 50, "spikes")
SectionLoud ==
    Section("F", 1000, 2000, 50, 50, 50, 250, "spikes")

SectionLists ==
    { << >>,
      << SectionA(0, 1000) >>,
      << SectionA(0, 1000), SectionB(1000, 2000) >>,
      << SectionA(0, 1000), SectionB(1000, 2500) >>,
      << SectionB(1000, 2000), SectionA(0, 1000) >>,
      << SectionA(0, 1000), SectionBackwards >>,
      << SectionA(0, 1000), SectionHot >>,
      << SectionNegativeSpike, SectionB(1000, 2000) >>,
      << SectionLoud >> }

\* the text of a chat completion: nothing, text that is not JSON, or a
\* JSON value with or without a well-formed global block
PlanJson(global, sections) ==
    [ kind |-> "json", global |-> global, sections |-> sections ]

PlanResponses ==
    { [ kind |-> "empty", global |-> "missing", sections |-> << >> ],
      [ kind |-> "garbled", global |-> "missing", sections |-> << >> ] }
    \cup { PlanJson("ok", secs) : secs \in SectionLists }
    \cup { PlanJson("missing",
                    << SectionA(0, 1000), SectionB(1000, 2000) >>),
           PlanJson("hot", << SectionA(0, 1000) >>) }

\* z.number().min(0).max(1)
InUnitRange(x) == 0 <= x /\ x <= 100

\* mutant: the section schema checks the types only
SectionSchemaAccepts_TypesOnly(section) == TRUE

\* FerroAnimationSectionSchema
SectionSchemaAccepts(section) ==
    /\ InUnitRange(section.energy)
    /\ InUnitRange(section.tension)
    /\ InUnitRange(section.spikeAmount)
    /\ InUnitRange(section.noiseAmount)

\* FerroAnimationPlanSchema.parse does not throw
PlanSchemaAccepts(json) ==
    /\ json.global = "ok"
    /\ \A i \in 1..Len(json.sections) : SectionSchemaAccepts(json.sections[i])

\* trackInfo.duration || (time of the last frame, or 0 without frames)
timelineDuration(timeline) ==
    IF timeline.duration # 0 THEN timeline.duration
    ELSE IF Len(timeline.frames) > 0
    THEN timeline.frames[Len(timeline.frames)]
    ELSE 0

\* mutant: the sections are taken as they came
CoverTimeline_AsIs(sections, duration) == sections

\* the last section is extended to the end of the timeline
CoverTimeline(sections, duration) ==
    IF Len(sections) > 0 /\ sections[Len(sections)].endTime < duration
    THEN [ sections EXCEPT ![Len(sections)].endTime = duration ]
    ELSE sections

\* the plan a validated response becomes
ValidatedPlan(json, timeline) ==
    [ present |-> TRUE,
      global |-> [ baseEnergy |-> 50, baseTension |-> 45 ],
      sections |-> CoverTimeline(json.sections, timelineDuration(timeline)) ]

\* what a reflection response can be: its tone and the length of its message
ReflectionResponses ==
    { [ kind |-> "garbled", tone |-> "none", messageLength |-> 0 ],
      [ kind |-> "json", tone |-> "calm", messageLength |-> 80 ],
      [ kind |-> "json", tone |-> "angry", messageLength |-> 80 ],
      [ kind |-> "json", tone |-> "none", messageLength |-> 200 ],
      [ kind |-> "json", tone |-> "calm", messageLength |-> 10 ] }

ValidTones == {"calm", "neutral", "pulse", "wild"}

\* ReflectionSchema.parse does not throw
ReflectionSchemaAccepts(json) ==
    /\ json.tone \in ValidTones
    /\ 20 <= json.messageLength /\ json.messageLength <= 150

NoReflection == [ tone |-> "none", messageLength |-> 0 ]

\* the answer of POST /api/ai/generate-plan
RouteAnswer(response, timeline, hasMoodText) ==
    IF Len(timeline.frames) = 0 /\ ~ hasMoodText
    THEN [ status |-> 400, plan |-> NullPlan,
           error |-> "Either audioTimeline or userMoodText is required" ]
    ELSE IF response.kind = "empty"
    THEN [ status |-> 500, plan |-> NullPlan,
           error |-> "No response content from AI" ]
    ELSE IF response.kind = "garbled"
    THEN [ status |-> 500, plan |-> NullPlan,
           error |-> "Failed to parse JSON response" ]
    ELSE IF ~ PlanSchemaAccepts(response)
    THEN [ status |-> 500, plan |-> NullPlan, error |-> "Validation failed" ]
    ELSE [ status |-> 200, plan |-> ValidatedPlan(response, timeline),
           error |-> Null ]

\* AIPlannerFactory.generatePlan with the route behind it
GeneratePlanViaRoute(response, timeline, hasMoodText) ==
    LET answer == RouteAnswer(response, timeline, hasMoodText)
        begun == BeginGenerating(intake.store)
    IN  intake' =
            [ intake EXCEPT
                !.op = "route",
                !.response = response,
                !.timeline = timeline,
                !.lenientPasses = 0,
                !.reflection = NoReflection,
                !.outcome = IF answer.status = 200 THEN "accepted"
                            ELSE "rejected",
                !.store = IF answer.status = 200
                          THEN AcceptPlan(begun, answer.plan)
                          ELSE RejectPlan(begun, answer.error) ]

\* AIPlannerModule.generatePlan, which validates in the browser
GeneratePlanInBrowser(response, timeline) ==
    LET begun == BeginGenerating(intake.store)
        failure ==
            IF response.kind = "empty" THEN "No response content from OpenAI"
            ELSE IF response.kind = "garbled"
            THEN "Failed to parse JSON response"
            ELSE IF ~ PlanSchemaAccepts(response) THEN "ZodError"
            ELSE Null
    IN  intake' =
            [ intake EXCEPT
                !.op = "browser",
                !.response = response,
                !.timeline = timeline,
                !.lenientPasses = 0,
                !.reflection = NoReflection,
                !.outcome = IF failure = Null THEN "accepted" ELSE "rejected",
                !.store = IF failure = Null
                          THEN AcceptPlan(begun,
                                          ValidatedPlan(response, timeline))
                          ELSE RejectPlan(begun, failure) ]

\* ReflectionModule.generateReflection: a response the schema refuses is
\* kept when its message has 20 characters or more, its tone defaulted
GenerateReflection(response) ==
    LET strict == response.kind = "json" /\ ReflectionSchemaAccepts(response)
        lenient == response.kind = "json" /\ response.messageLength >= 20
    IN  intake' =
            [ intake EXCEPT
                !.op = "reflection",
                !.response = response,
                !.timeline = Timeline(0, << >>),
                !.lenientPasses =
                    IF response.kind = "json" /\ ~ strict THEN 1 ELSE 0,
                !.outcome = IF strict \/ lenient THEN "accepted"
                            ELSE "rejected",
                !.reflection =
                    IF strict \/ lenient
                    THEN [ tone |-> IF response.tone \in ValidTones
                                    THEN response.tone ELSE "neutral",
                           messageLength |-> response.messageLength ]
                    ELSE NoReflection ]

IntakeInit ==
    intake = [ op |-> "none",
               response |-> [ kind |-> "empty", global |-> "missing",
                              sections |-> << >> ],
               timeline |-> Timeline(0, << >>),
               store |-> [ plan |-> NullPlan, isGenerating |-> FALSE,
                           error |-> Null ],
               outcome |-> "idle",
               lenientPasses |-> 0,
               reflection |-> NoReflection ]

IntakeNext ==
    \/ \E response \in PlanResponses, timeline \in Timelines,
          hasMoodText \in BOOLEAN :
          GeneratePlanViaRoute(response, timeline, hasMoodText)
    \/ \E response \in PlanResponses, timeline \in Timelines :
          GeneratePlanInBrowser(response, timeline)
    \/ \E response \in ReflectionResponses : GenerateReflection(response)

----------------------------------------------------------------------------
(* The timeline recorders: the render loop of FerrofluidVisualizer and the  *)
(* analysis loop of AudioInputModule.  Times are in centiseconds.           *)

\* the sampling interval, 0.5 s
SampleInterval == 50

\* how far the clocks move between two events
ClockSteps == {15, 40}

\* positions the progress bar is dragged to
SeekTargets == {0}

NoAudio == [ present |-> FALSE, currentTime |-> 0, paused |-> FALSE, ended |-> FALSE ]
NewAudio == [ present |-> TRUE, currentTime |-> 0, paused |-> FALSE, ended |-> FALSE ]
ClosedContext == [ open |-> FALSE, created |-> 0 ]

\* a playing media element's clock after d more centiseconds
MediaAfter(audio, d) ==
    IF audio.present /\ ~ audio.paused /\ ~ audio.ended
    THEN [ audio EXCEPT !.currentTime = Min(TrackDuration, @ + d) ]
    ELSE audio

\* mutant: any advance of the clock qualifies
ShouldAppend_AnyAdvance(currentTime, lastTime) ==
    currentTime - lastTime > 0

\* timeDiff >= 0.5
ShouldAppend(currentTime, lastTime) ==
    currentTime - lastTime >= SampleInterval

\* mutant: a file session reads the audio context's clock
timeSinceStart_ContextClock(v) ==
    IF v.audioContext.open
    THEN (now - v.audioContext.created) - v.timelineStartTimeRef
    ELSE 0

\* the visualizer's current time: the media element's clock when an element
\* exists, else the audio context's clock since the session started
timeSinceStart(v) ==
    IF v.audioRef.present THEN v.audioRef.currentTime
    ELSE IF v.audioContext.open
         THEN (now - v.audioContext.created) - v.timelineStartTimeRef
         ELSE 0

\* the time of the last frame, or one sampling interval before zero
lastFrameTime(frames) ==
    IF Len(frames) > 0 THEN frames[Len(frames)] ELSE 0 - SampleInterval

\* Math.round(currentTime * 10) / 10
RoundToTenth(t) == ((t + 5) \div 10) * 10

\* nothing is handed to generatePlan
NoTimelineSent == [ source |-> "none", duration |-> 0, frames |-> << >> ]

NoRequest == UNCHANGED planVars /\ recSent' = NoTimelineSent

\* mutant: only the latest frame is sent
TimelineFromRef_LatestOnly(v) ==
    [ source |-> IF v.isPlayingFile THEN "file" ELSE "mic",
      duration |-> lastFrameTime(v.timelineFramesRef),
      frames |-> << v.timelineFramesRef[Len(v.timelineFramesRef)] >> ]

\* the timeline generateAIPlanFromTimeline builds: the collected frames,
\* with the time of the last one as the duration
TimelineFromRef(v) ==
    [ source |-> IF v.isPlayingFile THEN "file" ELSE "mic",
      duration |-> lastFrameTime(v.timelineFramesRef),
      frames |-> v.timelineFramesRef ]

\* the timeline the analysis loop put in the audio store at its last
\* append: every frame so far, with the media element's duration if there
\* is an element (0 for undefined)
TimelineFromStore(a) ==
    [ source |-> a.sourceType,
      duration |-> IF a.audioElement.present THEN TrackDuration ELSE 0,
      frames |-> a.timelineFrames ]

\* generateAIPlanFromTimeline / generateAIPlan as called when a session stops
\* with frames collected; otherwise the plan store is left alone
TerminalRequest(wanted, caller) ==
    IF wanted
    THEN /\ IssuePlanRequest(caller, "stop")
         /\ recSent' = IF caller = "visualizer"
                       THEN TimelineFromRef(visualizer)
                       ELSE TimelineFromStore(audioInput)
    ELSE NoRequest

\* stopAudioFile's writes to the refs
AfterStopAudioFile(v) ==
    [ v EXCEPT !.audioRef = NoAudio, !.audioContext = ClosedContext,
               !.isPlayingFile = FALSE ]

\* stopMicrophone's writes to the refs
AfterStopMicrophone(v) ==
    [ v EXCEPT !.audioContext = ClosedContext, !.isRecording = FALSE ]

\* whether a stop of the visualizer asks for a plan
WantsPlan(v) ==
    v.enableAITimelineRef /\ Len(v.timelineFramesRef) > 0

\* the frames and start time after a session start
WithCollectionStarted(v) ==
    IF v.enableAITimelineRef
    THEN [ v EXCEPT !.timelineFramesRef = << >>, !.timelineStartTimeRef = 0 ]
    ELSE v

\* no capture was attempted, or the capture succeeded
NoFailure == [ surfaced |-> Null, attempts |-> 0 ]

RecStep(op, appended, vizTicks, aimTicks, paused) ==
    /\ recFailure' = NoFailure
    /\ recLastOp' = op
    /\ recAppended' = appended
    /\ ticksInSession' = [ visualizer |-> vizTicks, audioInput |-> aimTicks ]
    /\ pausedAppends' = paused

\* the checkbox, disabled while a session runs or a plan is being generated
ToggleAITimeline ==
    /\ ~ visualizer.isRecording /\ ~ visualizer.isPlayingFile
    /\ ~ aiPlanStore.isGenerating
    /\ visualizer' = [ visualizer EXCEPT !.enableAITimelineRef = ~ @ ]
    /\ RecStep("toggleTimeline", FALSE, ticksInSession.visualizer,
               ticksInSession.audioInput, pausedAppends)
    /\ UNCHANGED <<now, audioInput>> /\ NoRequest

\* startMicrophone: stops a playing file, opens a new audio context
StartMicrophone ==
    /\ ~ visualizer.isRecording
    /\ LET stopped == IF visualizer.isPlayingFile
                      THEN AfterStopAudioFile(visualizer) ELSE visualizer
           opened == [ stopped EXCEPT
                         !.audioContext = [ open |-> TRUE, created |-> now ],
                         !.isRecording = TRUE ]
       IN /\ visualizer' = WithCollectionStarted(opened)
          /\ TerminalRequest(visualizer.isPlayingFile /\ WantsPlan(visualizer),
                             "visualizer")
    /\ RecStep("startMicrophone", FALSE, 0, ticksInSession.audioInput, 0)
    /\ UNCHANGED <<now, audioInput>>

\* a start whose capture failed: what was shown and how often the capture
\* was attempted
FailedStart(op, surfaced) ==
    /\ recFailure' = [ surfaced |-> surfaced, attempts |-> 1 ]
    /\ recLastOp' = op
    /\ recAppended' = FALSE
    /\ UNCHANGED <<ticksInSession, pausedAppends>>

\* startMicrophone when getUserMedia rejects: a playing file has been
\* stopped by then, and the catch block only logs
StartMicrophoneFails ==
    /\ ~ visualizer.isRecording
    /\ visualizer' = [ (IF visualizer.isPlayingFile
                        THEN AfterStopAudioFile(visualizer) ELSE visualizer)
                       EXCEPT !.isRecording = FALSE ]
    /\ TerminalRequest(visualizer.isPlayingFile /\ WantsPlan(visualizer),
                       "visualizer")
    /\ FailedStart("startMicrophoneFailed", Null)
    /\ UNCHANGED <<now, audioInput>>

\* playAudioFromSource when the element fails to load: the catch block
\* shows the error and drops the element
PlayAudioFromSourceFails ==
    /\ LET stopped == IF visualizer.isRecording
                      THEN AfterStopMicrophone(visualizer) ELSE visualizer
       IN /\ visualizer' = [ stopped EXCEPT !.audioRef = NoAudio,
                                            !.audioContext = ClosedContext,
                                            !.isPlayingFile = FALSE ]
          /\ TerminalRequest(visualizer.isRecording /\ WantsPlan(visualizer),
                             "visualizer")
    /\ FailedStart("playAudioFromSourceFailed",
                   "Failed to load or play audio file")
    /\ UNCHANGED <<now, audioInput>>

\* stopMicrophone
StopMicrophone ==
    /\ visualizer.isRecording
    /\ visualizer' = AfterStopMicrophone(visualizer)
    /\ TerminalRequest(WantsPlan(visualizer), "visualizer")
    /\ RecStep("stopMicrophone", FALSE, ticksInSession.visualizer,
               ticksInSession.audioInput, pausedAppends)
    /\ UNCHANGED <<now, audioInput>>

\* playAudioFromSource up to and including the element's "play" event
PlayAudioFromSource ==
    /\ LET stopped == IF visualizer.isRecording
                      THEN AfterStopMicrophone(visualizer) ELSE visualizer
           opened == [ stopped EXCEPT
                         !.audioRef = NewAudio,
                         !.audioContext = [ open |-> TRUE, created |-> now ],
                         !.isPlayingFile = TRUE ]
       IN /\ visualizer' = WithCollectionStarted(opened)
          /\ TerminalRequest(visualizer.isRecording /\ WantsPlan(visualizer),
                             "visualizer")
    /\ RecStep("playAudioFromSource", FALSE, 0, ticksInSession.audioInput, 0)
    /\ UNCHANGED <<now, audioInput>>

\* togglePlayPause
TogglePlayPause ==
    /\ visualizer.isPlayingFile /\ visualizer.audioRef.present
    /\ visualizer' = [ visualizer EXCEPT !.audioRef.paused = ~ @ ]
    /\ RecStep("togglePlayPause", FALSE, ticksInSession.visualizer,
               ticksInSession.audioInput, 0)
    /\ UNCHANGED <<now, audioInput>> /\ NoRequest

\* the progress bar's onChange
SeekTo(newTime) ==
    /\ visualizer.isPlayingFile /\ visualizer.audioRef.present
    /\ newTime <= TrackDuration
    /\ visualizer' = [ visualizer EXCEPT !.audioRef.currentTime = newTime ]
    /\ RecStep("seek", FALSE, ticksInSession.visualizer,
               ticksInSession.audioInput, 0)
    /\ UNCHANGED <<now, audioInput>> /\ NoRequest

\* stopAudioFile
StopAudioFile ==
    /\ visualizer.isPlayingFile
    /\ visualizer' = AfterStopAudioFile(visualizer)
    /\ TerminalRequest(WantsPlan(visualizer), "visualizer")
    /\ RecStep("stopAudioFile", FALSE, ticksInSession.visualizer,
               ticksInSession.audioInput, pausedAppends)
    /\ UNCHANGED <<now, audioInput>>

\* mutant: the end of playback leaves the file marked as playing
AudioEnded_StillPlaying ==
    /\ visualizer.audioRef.present /\ ~ visualizer.audioRef.ended
    /\ ~ visualizer.audioRef.paused
    /\ visualizer.audioRef.currentTime = TrackDuration
    /\ visualizer' = [ visualizer EXCEPT !.audioRef.ended = TRUE ]
    /\ TerminalRequest(WantsPlan(visualizer), "visualizer")
    /\ RecStep("ended", FALSE, ticksInSession.visualizer,
               ticksInSession.audioInput, pausedAppends)
    /\ UNCHANGED <<now, audioInput>>

\* the element's "ended" event: the element stays referenced
AudioEnded ==
    /\ visualizer.audioRef.present /\ ~ visualizer.audioRef.ended
    /\ ~ visualizer.audioRef.paused
    /\ visualizer.audioRef.currentTime = TrackDuration
    /\ visualizer' = [ visualizer EXCEPT !.audioRef.ended = TRUE,
                                         !.isPlayingFile = FALSE ]
    /\ TerminalRequest(WantsPlan(visualizer), "visualizer")
    /\ RecStep("ended", FALSE, ticksInSession.visualizer,
               ticksInSession.audioInput, pausedAppends)
    /\ UNCHANGED <<now, audioInput>>

\* one pass of the render loop's timeline collection
RenderTick ==
    /\ visualizer.enableAITimelineRef /\ visualizer.audioContext.open
    /\ LET t == timeSinceStart(visualizer)
           frames == visualizer.timelineFramesRef
           append == ShouldAppend(t, lastFrameTime(frames))
           isPaused == visualizer.audioRef.present /\ visualizer.audioRef.paused
       IN /\ visualizer' = [ visualizer EXCEPT !.timelineFramesRef =
                                IF append THEN Append(frames, t) ELSE frames ]
          /\ RecStep("renderTick", append, Min(2, ticksInSession.visualizer + 1),
                     ticksInSession.audioInput,
                     IF append /\ isPaused THEN Min(2, pausedAppends + 1)
                     ELSE pausedAppends)
    /\ UNCHANGED <<now, audioInput>> /\ NoRequest

\* startMic / startFile of AudioInputModule, called by handleStart
HandleStart(sourceType) ==
    /\ ~ audioInput.isRecording
    /\ audioInput' = [ isRecording |-> TRUE,
                       sourceType |-> sourceType,
                       audioElement |-> IF sourceType = "file" THEN NewAudio ELSE NoAudio,
                       timelineStartTime |-> now,
                       timelineFrames |-> << >>,
                       lastTimelineUpdate |-> 0 ]
    /\ RecStep("handleStart", FALSE, ticksInSession.visualizer, 0, pausedAppends)
    /\ UNCHANGED <<now, visualizer>> /\ NoRequest

\* startMic / startFile when getUserMedia or the element's load rejects:
\* the catch block puts the message in the audio store and rethrows
HandleStartFails(sourceType) ==
    /\ ~ audioInput.isRecording
    /\ audioInput' = [ audioInput EXCEPT !.isRecording = FALSE,
                                         !.sourceType = sourceType ]
    /\ FailedStart("handleStartFailed",
                   IF sourceType = "mic" THEN "Permission denied"
                   ELSE "MediaError")
    /\ UNCHANGED <<now, visualizer>> /\ NoRequest

\* handleStop: AudioInputModule.stop, then generateAIPlan with the timeline
\* the controls last rendered
HandleStop ==
    /\ audioInput.isRecording
    /\ audioInput' = [ audioInput EXCEPT !.isRecording = FALSE,
                                         !.audioElement = NoAudio ]
    /\ TerminalRequest(Len(audioInput.timelineFrames) > 0, "controls")
    /\ RecStep("handleStop", FALSE, ticksInSession.visualizer,
               ticksInSession.audioInput, pausedAppends)
    /\ UNCHANGED <<now, visualizer>>

\* the track time the analysis loop stores: the element's clock, else the
\* wall clock since the session started
trackTime(a) ==
    IF a.audioElement.present THEN a.audioElement.currentTime
    ELSE now - a.timelineStartTime

\* one pass of analyze()
AnalyzeTick ==
    /\ audioInput.isRecording
    /\ LET currentTime == trackTime(audioInput)
           append == ShouldAppend(currentTime, audioInput.lastTimelineUpdate)
       IN /\ audioInput' =
                IF append
                THEN [ audioInput EXCEPT
                         !.timelineFrames = Append(@, RoundToTenth(currentTime)),
                         !.lastTimelineUpdate = currentTime ]
                ELSE audioInput
          /\ RecStep("analyzeTick", append, ticksInSession.visualizer,
                     Min(2, ticksInSession.audioInput + 1), pausedAppends)
    /\ UNCHANGED <<now, visualizer>> /\ NoRequest

\* time passes: the wall clock, the audio contexts and every playing element
TimePasses(d) ==
    /\ now + d <= MaxClock
    /\ now' = now + d
    /\ visualizer' = [ visualizer EXCEPT !.audioRef = MediaAfter(@, d) ]
    /\ audioInput' = [ audioInput EXCEPT !.audioElement = MediaAfter(@, d) ]
    /\ RecStep("timePasses", FALSE, ticksInSession.visualizer,
               ticksInSession.audioInput, pausedAppends)
    /\ NoRequest

RecInit ==
    /\ mounted \in {"visualizer", "controls"}
    /\ now = 0
    /\ visualizer = [ audioRef |-> NoAudio,
                      audioContext |-> ClosedContext,
                      timelineStartTimeRef |-> 0,
                      timelineFramesRef |-> << >>,
                      enableAITimelineRef |-> FALSE,
                      isPlayingFile |-> FALSE,
                      isRecording |-> FALSE ]
    /\ audioInput = [ isRecording |-> FALSE,
                      sourceType |-> "mic",
                      audioElement |-> NoAudio,
                      timelineStartTime |-> 0,
                      timelineFrames |-> << >>,
                      lastTimelineUpdate |-> 0 ]
    /\ recLastOp = "init"
    /\ recAppended = FALSE
    /\ ticksInSession = [ visualizer |-> 0, audioInput |-> 0 ]
    /\ pausedAppends = 0
    /\ recSent = NoTimelineSent
    /\ recFailure = NoFailure
    /\ sessionRequests = 0

\* the handlers of FerrofluidVisualizer
VisualizerNext ==
    \/ ToggleAITimeline
    \/ StartMicrophone
    \/ StartMicrophoneFails
    \/ PlayAudioFromSourceFails
    \/ StopMicrophone
    \/ PlayAudioFromSource
    \/ TogglePlayPause
    \/ \E t \in SeekTargets : SeekTo(t)
    \/ StopAudioFile
    \/ AudioEnded
    \/ RenderTick

\* the handlers of AudioControls and the loop of AudioInputModule
ControlsNext ==
    \/ \E src \in {"mic", "file"} : HandleStart(src)
    \/ \E src \in {"mic", "file"} : HandleStartFails(src)
    \/ HandleStop
    \/ AnalyzeTick

\* the operations that start a session
StartOps == {"startMicrophone", "playAudioFromSource", "handleStart"}

\* the requests issued so far for the session started last: a request issued
\* by the step that starts a session belongs to the session it stopped
CountSessionRequests ==
    sessionRequests' =
        IF recLastOp' \in StartOps THEN 0
        ELSE sessionRequests + (Len(planRequests') - Len(planRequests))

\* a page mounts one of the two front ends; time passes for both
RecNext ==
    \/ mounted = "visualizer" /\ VisualizerNext /\ UNCHANGED mounted
    \/ mounted = "controls" /\ ControlsNext /\ UNCHANGED mounted
    \/ \E d \in ClockSteps : TimePasses(d) /\ UNCHANGED mounted
----------------------------------------------------------------------------
(* Specifications: one per component, the others standing still.           *)

Init ==
    /\ EngineInit /\ CallerInit /\ ClampInit /\ LookupInit /\ DeformInit
    /\ IntakeInit
    /\ PlanInit /\ RecInit

Spec ==
    Init /\ [][EngineNext
                 /\ UNCHANGED <<callerVars, clampRun, planVars, recVars,
                                planLookup, intake, deform>>]_vars

SpecPlan ==
    Init /\ [][PlanNext
                 /\ UNCHANGED <<engineVars, callerVars, clampRun, recVars,
                                planLookup, intake, deform>>]_vars

SpecRec ==
    Init /\ [][RecNext /\ CountSessionRequests
                 /\ UNCHANGED <<engineVars, callerVars, clampRun,
                                planLookup, intake, deform>>]_vars

SpecAlias ==
    Init /\ [][(EngineBesideCaller \/ CallerNext)
                 /\ UNCHANGED <<clampRun, planVars, recVars, planLookup,
                                intake, deform>>]_vars

SpecLookup ==
    Init /\ [][LookupNext
                 /\ UNCHANGED <<engineVars, callerVars, clampRun, planVars,
                                recVars, intake, deform>>]_vars

SpecClamp ==
    Init /\ [][ClampNext
                 /\ UNCHANGED <<engineVars, callerVars, planVars, recVars,
                                planLookup, intake, deform>>]_vars

SpecIntake ==
    Init /\ [][IntakeNext
                 /\ UNCHANGED <<engineVars, callerVars, clampRun, planLookup,
                                planVars, recVars, deform>>]_vars

SpecDeform ==
    Init /\ [][DeformNext
                 /\ UNCHANGED <<engineVars, callerVars, clampRun, planLookup,
                                intake, planVars, recVars>>]_vars

----------------------------------------------------------------------------
(* Properties of TransitionEngine.                                         *)

NumericKeys ==
    { <<"ferro", p>> : p \in SeqRange(FerroNumericParams) }
    \cup { <<"background", p>> : p \in SeqRange(BgNumericParams) }

ColorKeys ==
    { <<"ferro", "baseColor">>, <<"ferro", "accentColor">>,
      <<"background", "bgGradientA">>, <<"background", "bgGradientB">> }

ContinuousKeys == NumericKeys \cup ColorKeys

TweensOn(key) == { tw \in gsapTweens : tw.key = key }

\* what an interpolation of field `key` toward `target` must aim at
AimOf(target, key) ==
    IF key \in ColorKeys THEN hexToRgb(target[key[1]][key[2]])
    ELSE << target[key[1]][key[2]] >>

\* the colour string transitionTo compares the target's colour with
HeldColor(state, key) ==
    IF key = <<"ferro", "accentColor">> /\ state.ferro.accentColor = NoColor
    THEN state.ferro.baseColor
    ELSE state[key[1]][key[2]]

SecondCallInFlight ==
    callCount >= 2 /\ lastOp = "transitionTo" /\ interrupted

\* C1 as stated: after transitionTo(T1); transitionTo(T2) with T1 still in
\* flight, every continuous field (numeric or colour) has exactly one running
\* interpolation and it aims at T2's value.
C1_ExactlyOnePerField ==
    SecondCallInFlight =>
        \A k \in ContinuousKeys :
            /\ Cardinality(TweensOn(k)) = 1
            /\ \A tw \in TweensOn(k) : tw.to = AimOf(lastTarget, k)

\* C1 amended: after the second call no field has more than one running
\* interpolation and every running interpolation was started by the second
\* call and aims at T2's value; every numeric field has exactly one; a colour
\* field has exactly one when T2 names a colour for it that differs, as a
\* string, from the colour it holds and both are valid hex, and none otherwise.
C1_OnePerFieldTowardSecond ==
    SecondCallInFlight =>
        /\ \A k \in ContinuousKeys :
              /\ Cardinality(TweensOn(k)) <= 1
              /\ \A tw \in TweensOn(k) :
                    tw.gen = callCount /\ tw.to = AimOf(lastTarget, k)
        /\ \A k \in NumericKeys : Cardinality(TweensOn(k)) = 1
        /\ \A k \in ColorKeys :
              (Cardinality(TweensOn(k)) = 1) <=>
                  /\ lastTarget[k[1]][k[2]] # NoColor
                  /\ lastTarget[k[1]][k[2]] # HeldColor(prevState, k)
                  /\ hexToRgb(lastTarget[k[1]][k[2]]) # RgbNull
                  /\ hexToRgb(HeldColor(prevState, k)) # RgbNull

\* the second call interrupts a transition toward another look; one colour
\* gets a new interpolation, another is left without one
C1_Witness ==
    /\ SecondCallInFlight
    /\ prevState.mood # lastTarget.mood
    /\ \E k \in ColorKeys : TweensOn(k) # {}
    /\ \E k \in ColorKeys : TweensOn(k) = {}

\* C2: no field is animated toward two targets: a field path has at most one
\* live interpolation, and every live interpolation belongs to the latest
\* transitionTo (those of earlier calls were cancelled).
C2_NoFieldTowardTwoTargets ==
    /\ \A k \in ContinuousKeys : Cardinality(TweensOn(k)) <= 1
    /\ \A tw \in gsapTweens :
          tw.gen = callCount /\ tw.to = AimOf(lastTarget, tw.key)

\* interpolation steps run after a second call that interrupted the first
C2_Witness ==
    /\ callCount >= 2 /\ interrupted /\ lastOp = "tick"
    /\ prevState.mood # lastTarget.mood
    /\ gsapTweens # {}

\* the duration the mood rule prescribes for the latest call
RuleDuration ==
    IF prevMood = "wild" /\ lastTarget.mood = "calm"
    THEN Clamp(1200, 2000, (lastTarget.transitionSeconds * 3) \div 2)
    ELSE lastTarget.transitionSeconds

MeshTweens == { tw \in gsapTweens : tw.key[1] = "ferro" }
BackgroundRunning == { tw \in gsapTweens : tw.key[1] = "background" }
SlowKeys == { <<"background", "bgFogDensity">>, <<"background", "bloomIntensity">> }

\* C8: the mesh interpolations of a call last clamp(requested x 1.5, 12, 20)
\* exactly when the previous mood is wild and the target mood calm (5 s gives
\* 12 s, 15 s gives 20 s), and the requested duration for every other pair.
C8_MoodDurationRule ==
    callCount > 0 =>
        \A tw \in MeshTweens :
            /\ tw.duration = RuleDuration
            /\ (prevMood = "wild" /\ lastTarget.mood = "calm")
                  => /\ lastTarget.transitionSeconds = 500 => tw.duration = 1200
                     /\ lastTarget.transitionSeconds = 1500 => tw.duration = 2000
            /\ ~(prevMood = "wild" /\ lastTarget.mood = "calm")
                  => tw.duration = lastTarget.transitionSeconds

\* a wild-to-calm call with 5 s requested has started its mesh interpolations
C8_Witness ==
    /\ prevMood = "wild" /\ lastTarget.mood = "calm"
    /\ lastTarget.transitionSeconds = 500
    /\ lastOp = "transitionTo"
    /\ \E tw \in MeshTweens : tw.duration = 1200

\* C9: fog density and bloom intensity are interpolated over
\* max(8 s, backgroundDuration), so while fewer than 8 s have passed since the
\* call (and nothing was killed) both are still on their way.
C9_SlowFieldsFloor ==
    (callCount > 0 /\ activeTweens # NoTweens) =>
        \A k \in SlowKeys :
            /\ \A tw \in TweensOn(k) :
                  /\ tw.duration = Max(800, (RuleDuration * 6) \div 5)
                  /\ tw.duration >= 800
                  /\ (lastTarget.transitionSeconds = 500 /\ RuleDuration = 500)
                        => tw.duration = 800
            /\ sinceCall < 800 => Cardinality(TweensOn(k)) = 1

\* 5 s requested: the other background fields (6 s) are done, fog and bloom
\* are still running
C9_Witness ==
    /\ callCount > 0 /\ activeTweens # NoTweens
    /\ lastTarget.transitionSeconds = 500 /\ RuleDuration = 500
    /\ sinceCall >= 600 /\ sinceCall < 800
    /\ BackgroundRunning = TweensOn(<<"background", "bgFogDensity">>)
                            \cup TweensOn(<<"background", "bloomIntensity">>)
    /\ Cardinality(BackgroundRunning) = 2

\* C10 as stated: every background interpolation of a call runs over
\* backgroundDuration = actualDuration x 1.2.
C10_AllBackgroundAtLagDuration ==
    callCount > 0 =>
        \A tw \in BackgroundRunning : tw.duration = (RuleDuration * 6) \div 5

\* the background interpolations this call started and that have completed
BackgroundDone ==
    { k \in DOMAIN activeTweens : k[1] = "background" /\ TweensOn(k) = {} }

\* C10 amended: every background interpolation runs over at least
\* actualDuration x 1.2 (exactly that for the colours and the fields other
\* than fog and bloom, max(8 s, that) for fog and bloom), so no background
\* field completes while a mesh field of the same call is still running.
C10_BackgroundLags ==
    (callCount > 0 /\ activeTweens # NoTweens) =>
        /\ \A tw \in BackgroundRunning :
              /\ tw.duration >= (RuleDuration * 6) \div 5
              /\ tw.duration > RuleDuration
              /\ tw.key \notin SlowKeys
                    => tw.duration = (RuleDuration * 6) \div 5
              /\ tw.key \in SlowKeys
                    => tw.duration = Max(800, (RuleDuration * 6) \div 5)
        /\ MeshTweens # {} => BackgroundDone = {}

\* the mesh fields have arrived, background fields are still moving
C10_Witness ==
    /\ callCount > 0 /\ activeTweens # NoTweens
    /\ MeshTweens = {}
    /\ \E tw \in BackgroundRunning : tw.key \notin SlowKeys /\ tw.elapsed > 0

\* the latest call was a return from wild to calm and nothing was killed
WildToCalm ==
    /\ callCount > 0 /\ activeTweens # NoTweens
    /\ prevMood = "wild" /\ lastTarget.mood = "calm"

C12_DiscreteImmediate ==
    callCount > 0 =>
        /\ currentState.renderMode = lastTarget.renderMode
        /\ currentState.mood = lastTarget.mood
        /\ currentState.background.bgStyle = lastTarget.background.bgStyle

\* transitionTo has just returned, all three discrete fields changed and no
\* interpolation has rendered yet
C12_Witness ==
    /\ lastOp = "transitionTo"
    /\ prevState.renderMode # currentState.renderMode
    /\ prevState.mood # currentState.mood
    /\ prevState.background.bgStyle # currentState.background.bgStyle
    /\ gsapTweens # {}
    /\ \A tw \in gsapTweens : tw.elapsed = 0

\* the value a field holds, as an interpolation reads it: the number, or the
\* channels of the colour (an unset accent colour reads as the base colour)
HeldValue(state, key) ==
    IF key \in ColorKeys THEN hexToRgb(HeldColor(state, key))
    ELSE << state[key[1]][key[2]] >>

\* C13: transitionTo itself moves no continuous field, and every
\* interpolation it starts, also when it interrupts an earlier transition,
\* starts from the value the field held at the call.
C13_StartFromCurrent ==
    /\ lastOp = "transitionTo" =>
          \A k \in ContinuousKeys :
              currentState[k[1]][k[2]] = prevState[k[1]][k[2]]
    /\ \A tw \in gsapTweens :
          tw.started => tw.from = HeldValue(prevState, tw.key)

\* a second call interrupted the first mid-way; its interpolations have
\* rendered, starting from values that are neither initial nor final
C13_Witness ==
    /\ callCount >= 2 /\ interrupted /\ lastOp = "tick"
    /\ \E tw \in gsapTweens :
          /\ tw.kind = "numeric" /\ tw.started
          /\ tw.from # << InitialState[tw.key[1]][tw.key[2]] >>
          /\ tw.from # tw.to
    /\ \E tw \in gsapTweens :
          /\ tw.kind = "color"
          /\ tw.from # hexToRgb(HeldColor(InitialState, tw.key))
          /\ tw.from # tw.to

\* C14: after killAll no interpolation is in flight and every field holds the
\* value it held before the call, until the next transitionTo.
C14_KillAllFreezes ==
    lastOp = "killAll" =>
        /\ gsapTweens = {}
        /\ activeTweens = NoTweens
        /\ currentState = killedState

\* killAll stopped a transition mid-way
C14_Witness ==
    /\ lastOp = "killAll"
    /\ callCount > 0
    /\ \E k \in NumericKeys :
          /\ currentState[k[1]][k[2]] # lastTarget[k[1]][k[2]]
          /\ currentState[k[1]][k[2]] # InitialState[k[1]][k[2]]

\* C15: TransitionEngine is the only writer of WorldState: whatever another
\* component does with the object it passed as the initial snapshot or got
\* from getCurrentState(), the engine's WorldState stays as it was.
C15_SingleWriter ==
    callerLastOp = "write" => currentState = stateBeforeCaller

InRange(field, v) ==
    DeclaredRange[field][1] <= v /\ v <= DeclaredRange[field][2]

C17_ClampIdempotent ==
    clampRun.stage = "twice" => clampRun.twice = clampRun.once

\* a reduced-effects target that the first clamp changed was clamped twice
C17_Witness ==
    /\ clampRun.stage = "twice"
    /\ clampRun.input.renderMode = "meshOnly"
    /\ clampRun.once # clampRun.input
    /\ clampRun.input.background.bloomIntensity > 120
    /\ clampRun.input.transitionSeconds < 500

\* the caps of the two mode-dependent fields
BloomCap(renderMode) == IF renderMode = "meshOnly" THEN 50 ELSE 120
GrainCap(renderMode) == IF renderMode = "meshOnly" THEN 15 ELSE 35

\* the same raw target under the other render mode
OtherMode(target) ==
    [ target EXCEPT !.renderMode =
        IF target.renderMode = "meshOnly" THEN "full" ELSE "meshOnly" ]

\* C18: for the same raw input the clamp yields bloomIntensity in [0, 0.5] and
\* grainAmount in [0, 0.15] under meshOnly, and bloomIntensity in [0, 1.2]
\* and grainAmount in [0, 0.35] under any other render mode.
C18_ModeCaps ==
    clampRun.stage \in {"once", "twice"} =>
        LET raw == clampRun.input.background
            rm == clampRun.input.renderMode
            out == clampRun.once.background
            alt == clampWorldTarget(OtherMode(clampRun.input))
        IN  /\ out.bloomIntensity = Clamp(0, BloomCap(rm), raw.bloomIntensity)
            /\ out.grainAmount = Clamp(0, GrainCap(rm), raw.grainAmount)
            /\ rm = "meshOnly" =>
                  /\ 0 <= out.bloomIntensity /\ out.bloomIntensity <= 50
                  /\ 0 <= out.grainAmount /\ out.grainAmount <= 15
            /\ rm # "meshOnly" =>
                  /\ 0 <= out.bloomIntensity /\ out.bloomIntensity <= 120
                  /\ 0 <= out.grainAmount /\ out.grainAmount <= 35
            /\ alt.background.bloomIntensity
                  = Clamp(0, BloomCap(alt.renderMode), raw.bloomIntensity)
            /\ alt.background.grainAmount
                  = Clamp(0, GrainCap(alt.renderMode), raw.grainAmount)

\* raw bloom 0.8 and grain 0.2 pass in full mode and are cut under meshOnly
C18_Witness ==
    /\ clampRun.stage = "once"
    /\ clampRun.input.renderMode = "meshOnly"
    /\ clampRun.input.background.bloomIntensity = 80
    /\ clampRun.input.background.grainAmount = 20
    /\ clampRun.once.background.bloomIntensity = 50
    /\ clampRun.once.background.grainAmount = 15
    /\ clampWorldTarget(OtherMode(clampRun.input)).background.bloomIntensity = 80
    /\ clampWorldTarget(OtherMode(clampRun.input)).background.grainAmount = 20

\* C32: at every instant, a WorldState in meshOnly mode has bloomIntensity
\* at most 0.5 and grainAmount at most 0.15.
C32_CapsAtEveryInstant ==
    currentState.renderMode = "meshOnly" =>
        /\ currentState.background.bloomIntensity <= BloomCap("meshOnly")
        /\ currentState.background.grainAmount <= GrainCap("meshOnly")

\* the longest time C33 allows the latest call: max(8 s, actualDuration x 1.2)
SettleTime == Max(800, (RuleDuration * 6) \div 5)

\* the latest transitionTo was followed by no killAll and SettleTime has gone
Settled ==
    callCount > 0 /\ lastOp # "killAll" /\ sinceCall >= SettleTime

\* the continuous fields the latest target gives a value for
SpecifiedKeys ==
    NumericKeys \cup { k \in ColorKeys : lastTarget[k[1]][k[2]] # NoColor }

IssuedMood == IF callCount = 0 THEN InitialState.mood ELSE lastTarget.mood

\* C34: the slow return depends on the moods of consecutive targets only.  A
\* transitionTo uses clamp(requested x 1.5, 12, 20) exactly when its target
\* mood is calm and the most recently issued target before it (the initial
\* state if there is none) had mood wild, however far that transition had
\* got; every other call, a calm one after a calm one included, uses the
\* duration it asked for.
C34_SlowSettleByIssuedMoods ==
    [][ callCount' = callCount + 1 =>
          /\ prevMood' = IssuedMood
          /\ \A tw \in MeshTweens' :
                tw.duration =
                    IF IssuedMood = "wild" /\ lastTarget'.mood = "calm"
                    THEN Clamp(1200, 2000,
                               (lastTarget'.transitionSeconds * 3) \div 2)
                    ELSE lastTarget'.transitionSeconds ]_vars

\* a calm call made right after a wild one, before the wild transition has
\* moved any mesh field, has started its mesh interpolations over 12 s
C34_Witness ==
    /\ callCount = 2 /\ lastOp = "transitionTo" /\ interrupted
    /\ prevMood = "wild" /\ lastTarget.mood = "calm"
    /\ prevState.ferro = InitialState.ferro
    /\ lastTarget.transitionSeconds = 500
    /\ MeshTweens # {}
    /\ \A tw \in MeshTweens : tw.duration = 1200

----------------------------------------------------------------------------
(* Properties of the plan store and the plan lookup.                                           *)

RequestIds == 1..Len(planRequests)

\* C3: plan-authoring requests are never cancelled and publish
\* last-write-wins: whenever a response arrives its plan becomes the active
\* plan, also when a request issued later has already delivered.
C3_LastWriteWins ==
    /\ \A r \in RequestIds :
          planRequests[r].phase \in {"inflight", "done", "failed"}
    /\ planLastOp = "accept" => aiPlanStore.plan = PlanOf(planLastReq)

\* R1 was issued before R2, R2 delivered first, then R1's stale plan replaced it
C3_Witness ==
    /\ planLastOp = "accept" /\ planLastReq = 1
    /\ Len(planRequests) >= 2 /\ planRequests[2].phase = "done"
    /\ planBefore = PlanOf(2)
    /\ aiPlanStore.plan = PlanOf(1)

\* C4: when a request fails, the in-progress flag is cleared, an error message
\* is set and the plan accepted earlier is still the active plan.
C4_FailureKeepsPlan ==
    planLastOp = "reject" =>
        /\ aiPlanStore.isGenerating = FALSE
        /\ aiPlanStore.error # Null
        /\ aiPlanStore.plan = planBefore

\* a request fails after an earlier one delivered a plan
C4_Witness ==
    /\ planLastOp = "reject"
    /\ planBefore # NoPlan
    /\ aiPlanStore.plan = planBefore
    /\ aiPlanStore.error # Null

\* C31: isGenerating is true exactly while at least one request is in
\* flight.
C31_GeneratingWhileInFlight ==
    aiPlanStore.isGenerating <=>
        \E r \in 1..Len(planRequests) : planRequests[r].phase = "inflight"

----------------------------------------------------------------------------
(* Properties of the timeline recorders.                                   *)

\* consecutive frames are at least one sampling interval apart
Spaced(frames) ==
    \A i \in 1..(Len(frames) - 1) :
        /\ frames[i] < frames[i + 1]
        /\ frames[i + 1] - frames[i] >= SampleInterval

\* C5: in both recorders any two consecutive recorded frames have strictly
\* increasing times at least 0.5 s apart, whatever the sessions and ticks.
C5_MonotonicTimeline ==
    /\ Spaced(visualizer.timelineFramesRef)
    /\ Spaced(audioInput.timelineFrames)

\* two frames recorded by AudioInputModule, the second one at a rounded time
C5_Witness ==
    /\ Len(audioInput.timelineFrames) >= 2
    /\ recLastOp = "analyzeTick" /\ recAppended
    /\ audioInput.lastTimelineUpdate
          # audioInput.timelineFrames[Len(audioInput.timelineFrames)]

\* C6: the first tick of every session appends a frame, at any current time
\* from zero on: once a session has ticked, its timeline is not empty.
C6_FirstTickAppends ==
    /\ (visualizer.audioContext.open /\ ticksInSession.visualizer >= 1)
          => Len(visualizer.timelineFramesRef) >= 1
    /\ (audioInput.isRecording /\ ticksInSession.audioInput >= 1)
          => Len(audioInput.timelineFrames) >= 1

\* C7 as stated: in a file-backed session a tick that runs while playback is
\* paused appends no frame.
C7_NoAppendWhilePaused ==
    (/\ recLastOp = "renderTick"
     /\ visualizer.audioRef.present /\ visualizer.audioRef.paused)
        => ~ recAppended

\* C7 amended: in a file-backed session the recorder's current time is the
\* media element's playback clock, so while playback stays paused at one
\* position at most one frame is appended (by the first tick after the pause,
\* when the clock had already moved 0.5 s past the last frame) and every later
\* tick appends nothing.
C7_AtMostOneWhilePaused ==
    /\ pausedAppends <= 1
    /\ (/\ recLastOp = "renderTick" /\ recAppended
        /\ visualizer.audioRef.present /\ visualizer.audioRef.paused)
          => LET frames == visualizer.timelineFramesRef
             IN frames[Len(frames)] = visualizer.audioRef.currentTime

\* paused playback: one frame was appended, the next tick appended nothing
C7_Witness ==
    /\ visualizer.audioRef.present /\ visualizer.audioRef.paused
    /\ pausedAppends = 1
    /\ recLastOp = "renderTick" /\ ~ recAppended
    /\ Len(visualizer.timelineFramesRef) >= 2

\* the operations that stop a session
StopOps == {"stopMicrophone", "stopAudioFile", "handleStop"}

\* the session just stopped was collecting a timeline
StoppedCollecting ==
    /\ recLastOp \in StopOps
    /\ mounted = "visualizer" => visualizer.enableAITimelineRef

\* the frames recorded in the session
SessionFrames ==
    IF mounted = "visualizer" THEN visualizer.timelineFramesRef
    ELSE audioInput.timelineFrames

\* C25 as stated: stopping a collecting session hands a timeline with every
\* frame of the session to generatePlan.
C25_StopSendsAllFrames ==
    StoppedCollecting =>
        /\ recSent # NoTimelineSent
        /\ recSent.frames = SessionFrames

\* C25, amended: stopping a collecting session that recorded at least one
\* frame issues a request whose timeline holds every frame of the session,
\* in order; a session that recorded nothing issues no request.
C25_StopSendsCollectedFrames ==
    StoppedCollecting =>
        IF SessionFrames # << >>
        THEN /\ recSent.frames = SessionFrames
             /\ planLastOp = "issue"
             /\ planRequests[Len(planRequests)].caller = mounted
        ELSE recSent = NoTimelineSent

\* a session with two frames or more was stopped and its timeline sent
C25_Witness ==
    /\ StoppedCollecting
    /\ Len(SessionFrames) >= 2
    /\ recSent.frames = SessionFrames

\* C26: the timeline a stopped file session hands over carries the media's
\* duration.
C26_DurationIsMediaDuration ==
    (recLastOp \in StopOps /\ recSent.source = "file") =>
        recSent.duration = TrackDuration

\* C35: every session starts with an empty timeline, for any order of start,
\* stop, play and enable/disable-collection events: right after a start the
\* recorder holds no frame (so none of an earlier session).
C35_SessionStartsEmpty ==
    recLastOp \in StartOps => SessionFrames = << >>

\* C36: each session gives rise to at most one terminal plan-authoring
\* request: a step issues a request only while none has been issued yet for
\* the session it stops or ends, so the end of playback followed by a stop or
\* by the start of another source issues no second one.
C36_OneRequestPerSession ==
    [][ Len(planRequests') > Len(planRequests) => sessionRequests = 0 ]_vars

\* playback ended and its request was issued; then the microphone was
\* started, and no second request was issued for the ended file
C36_Witness ==
    /\ recLastOp = "startMicrophone"
    /\ visualizer.audioRef.present /\ visualizer.audioRef.ended
    /\ visualizer.enableAITimelineRef
    /\ Len(planRequests) = 1
    /\ recSent = NoTimelineSent

\* the operations in which a capture failed
FailedStarts ==
    {"startMicrophoneFailed", "playAudioFromSourceFailed", "handleStartFailed"}

\* C28: a start whose microphone or file access failed has shown the
\* failure, has left the session not recording, and has tried once.
C28_CaptureFailureSurfaced ==
    recLastOp \in FailedStarts =>
        /\ recFailure.surfaced # Null
        /\ recFailure.attempts = 1
        /\ ~ visualizer.isRecording /\ ~ visualizer.isPlayingFile
        /\ ~ audioInput.isRecording

----------------------------------------------------------------------------
(* Properties of the plan lookup.                                          *)

\* a lookup ran with an analyser and a plan
LookedUp == planLookup.audio /\ planLookup.plan.present

PlanAB == AnimationPlan(<< SectionA(0, 10000), SectionB(10000, 20000) >>)
PlanGap == AnimationPlan(<< SectionA(0, 5000), SectionB(15000, 30000) >>)

\* C19: a non-last section matches iff startTime <= t < endTime, the last
\* section iff startTime <= t <= endTime, and the lookup resolves to the
\* first section that matches; with [0,10) A and [10,20] B: 9.999 s gives A,
\* 10 s and 20 s give B, 20.001 s gives the global block.
C19_SectionLookup ==
    LookedUp =>
        LET secs == planLookup.plan.sections
            t == planLookup.currentTime
            In(i) == IF i < Len(secs)
                     THEN secs[i].startTime <= t /\ t < secs[i].endTime
                     ELSE secs[i].startTime <= t /\ t <= secs[i].endTime
            cur == planLookup.currentSection
        IN  /\ cur # 0 =>
                  /\ cur \in 1..Len(secs) /\ In(cur)
                  /\ \A j \in 1..(cur - 1) : ~ In(j)
                  /\ planLookup.params = SectionParams(secs[cur])
            /\ cur = 0 => \A j \in 1..Len(secs) : ~ In(j)
            /\ planLookup.plan = PlanAB =>
                  /\ t = 9999 => planLookup.params.energy = 30
                  /\ t = 10000 => planLookup.params.energy = 80
                  /\ t = 20000 => planLookup.params.energy = 80
                  /\ t = 20001 => planLookup.params = GlobalParams(PlanAB)

\* the boundary between A and B was looked up and gave B
C19_Witness ==
    /\ LookedUp /\ planLookup.plan = PlanAB
    /\ planLookup.currentTime = 10000
    /\ planLookup.currentSection = 2
    /\ planLookup.params.motionStyle = "spikes"

\* C20: with a plan active and no section matching t, the parameters are the
\* plan's baseEnergy and baseTension with spikeAmount 0, noiseAmount 1.0 and
\* motionStyle "default", never a neighbouring section's; with [0,5) A and
\* [15,30] B, 12 s gives the global block.
C20_GapFallsBackToGlobal ==
    LookedUp =>
        LET secs == planLookup.plan.sections
            t == planLookup.currentTime
            Covered == \E i \in 1..Len(secs) :
                          /\ secs[i].startTime <= t
                          /\ (t < secs[i].endTime
                                \/ (i = Len(secs) /\ t = secs[i].endTime))
        IN  /\ ~ Covered =>
                  /\ planLookup.params.energy = planLookup.plan.global.baseEnergy
                  /\ planLookup.params.tension = planLookup.plan.global.baseTension
                  /\ planLookup.params.spikeAmount = 0
                  /\ planLookup.params.noiseAmount = 100
                  /\ planLookup.params.motionStyle = "default"
            /\ (planLookup.plan = PlanGap /\ t = 12000) =>
                  planLookup.params = GlobalParams(PlanGap)

\* the authored gap was looked up
C20_Witness ==
    /\ LookedUp /\ planLookup.plan = PlanGap
    /\ planLookup.currentTime = 12000
    /\ planLookup.currentSection = 0
    /\ planLookup.params.energy = 50
    /\ planLookup.params.motionStyle = "default"

----------------------------------------------------------------------------
(* Properties of the authoring boundary.                                   *)

PlanOps == {"route", "browser"}

\* a plan response was just taken in and published
PlanAccepted == intake.op \in PlanOps /\ intake.outcome = "accepted"

\* C21: an accepted plan with at least one section ends at or after the
\* timeline's known duration: a last section that ended earlier now ends at
\* the duration, one that reached it is stored as it came, and nothing else
\* of the plan is touched.
C21_LastSectionCoversDuration ==
    (PlanAccepted /\ intake.timeline.duration > 0
        /\ Len(intake.store.plan.sections) >= 1) =>
        LET came == intake.response.sections
            kept == intake.store.plan.sections
            n == Len(kept)
            d == intake.timeline.duration
        IN  /\ Len(came) = n
            /\ kept[n].endTime >= d
            /\ came[n].endTime < d =>
                  kept = [ came EXCEPT ![n].endTime = d ]
            /\ came[n].endTime >= d => kept = came

\* a plan ending at 2 s was accepted for a 3 s track and now ends at 3 s
C21_Witness ==
    /\ PlanAccepted
    /\ intake.timeline.duration = 3000
    /\ Len(intake.response.sections) = 2
    /\ intake.response.sections[2].endTime = 2000
    /\ intake.store.plan.sections[2].endTime = 3000

OutOfRange(section) ==
    \E x \in { section.energy, section.tension, section.spikeAmount,
               section.noiseAmount } : x < 0 \/ x > 100

\* C22: the plan in the store has energy, tension, spikeAmount and
\* noiseAmount within [0, 1] in every section, whatever responses arrived.
C22_ActivePlanInRange ==
    intake.store.plan.present =>
        \A i \in 1..Len(intake.store.plan.sections) :
            ~ OutOfRange(intake.store.plan.sections[i])

\* a response with a parameter out of range arrived while a plan was
\* active, and the active plan is still the earlier one
C22_Witness ==
    /\ intake.op \in PlanOps
    /\ \E i \in 1..Len(intake.response.sections) :
          OutOfRange(intake.response.sections[i])
    /\ intake.store.plan.present
    /\ Len(intake.store.plan.sections) = 2
    /\ intake.store.plan.sections # intake.response.sections

\* C23: a plan whose only fault is a numeric field out of range is accepted,
\* with that field clamped into [0, 1].
C23_RangeViolationClamped ==
    (/\ intake.op = "browser"
     /\ intake.response.kind = "json" /\ intake.response.global = "ok"
     /\ \E i \in 1..Len(intake.response.sections) :
           OutOfRange(intake.response.sections[i])) =>
        /\ intake.outcome = "accepted"
        /\ \A i \in 1..Len(intake.store.plan.sections) :
              ~ OutOfRange(intake.store.plan.sections[i])

\* C24: a response that parses as JSON and is rejected has been through one
\* lenient repair pass.
C24_LenientPassBeforeRejection ==
    (intake.outcome = "rejected" /\ intake.response.kind = "json") =>
        intake.lenientPasses = 1

----------------------------------------------------------------------------
(* Properties of the mesh deformation.                                     *)

\* a render pass has deformed the mesh
Deformed == deform.passes = 1

\* C27: with plan parameters the blended bass is 0.1 x audio bass + 0.9 x
\* energy and the blended treble 0.1 x audio treble + 0.9 x tension; with
\* none, the blended levels are the audio levels.
C27_BlendWeights ==
    Deformed =>
        IF deform.params.given
        THEN /\ deform.blendedBass = deform.bassFr + 9 * deform.params.energy
             /\ deform.blendedTreble = deform.treFr + 9 * deform.params.tension
        ELSE /\ deform.blendedBass = 10 * deform.bassFr
             /\ deform.blendedTreble = 10 * deform.treFr

\* a loud bass was blended with a quiet plan: 0.1 x 8.0 + 0.9 x 0.3 = 1.07
C27_Witness ==
    /\ Deformed /\ deform.params.given
    /\ deform.bassFr = 800 /\ deform.params.energy = 30
    /\ deform.blendedBass = 1070

LowerChar(c) ==
    CASE c = "S" -> "s" [] c = "L" -> "l" [] c = "O" -> "o" [] c = "W" -> "w"
      [] c = "A" -> "a" [] c = "V" -> "v" [] c = "E" -> "e" [] c = "I" -> "i"
      [] c = "N" -> "n" [] c = "T" -> "t" [] OTHER -> c

LowerCase(str) == [ i \in 1..Len(str) |-> LowerChar(str[i]) ]

\* C29: every case variant of "slow_waves" selects the slow time scale and
\* every case variant of "intense" the intense one.
C29_CaseVariantsSameBucket ==
    (Deformed /\ deform.params.given) =>
        /\ LowerCase(deform.params.motionStyle) = Tag_slow_waves =>
              deform.timeScale = 15
        /\ LowerCase(deform.params.motionStyle) = Tag_intense =>
              deform.timeScale = 60

\* C30: with plan parameters the fixed spike is at least as high as the
\* spike drawn without a plan, for every spikeAmount in [0, 1].
C30_SpikeAtLeastBaseline ==
    (Deformed /\ deform.params.given) =>
        deform.spikeHeight >= spikeHeight(UndefinedParams)

====
